---- MODULE Spec2Model ----
(***************************************************************************)
(* Deck resolution cache of the MTG proxy API server: the signature-       *)
(* preflight getDeckCached / buildAndCache pair, the record store          *)
(* (deckCache), the in-flight map (inFlight) and the /api/deck route.      *)
(*                                                                         *)
(* Every action is one run of JavaScript between two suspension points     *)
(* (an await on a network call or on a promise), which the event loop      *)
(* executes atomically.  Records are heap objects: the store and the       *)
(* callers hold references (indices into recs), because bumpFreshness      *)
(* mutates a record in place.  Objects nothing refers to any more (records,*)
(* settled promises, finished requests) are reclaimed, as the JavaScript   *)
(* garbage collector does, so MaxCalls and MaxBuilds bound the requests    *)
(* and builds in progress at one time, not their total number.             *)
(***************************************************************************)
EXTENDS Integers, Sequences, FiniteSets, TLC

\* ---------------------------------------------------------------- bounds
NumKeys == 2
MaxCalls == 2
MaxBuilds == 2
MaxTicks == 1
MaxVersion == 2
NumCards == 2
MaxRows == 3
MaxImages == 2
MaxProbes == 3
MaxDeckCats == 3
MaxCardCats == 2
MaxDeckCards == 2
MaxApiRows == 2

\* ------------------------------------------------------ program constants
FRESH_TTL_MS == 300000
SWR_TTL_MS == 3600000
MAX_DECKS == 500

Keys == 1..NumKeys
\* the first key: the deck all the requests are for, where they are for one
OneKey == {k \in Keys : \A j \in Keys : k <= j}
CallIds == 1..MaxCalls
BuildIds == 1..MaxBuilds
RecIds == 1..(NumKeys + 2 * MaxCalls + MaxBuilds + 1)
Versions == 1..MaxVersion
\* the strategy a successful probe of the page ends with: the provider's host
\* answers HEAD with validators
Strategies == {"H"}

\* "no record" / "no build" reference (undefined in the source)
None == 0
\* a null page signature, an absent If-None-Match header
NullSig == <<>>

VARIABLES
    now,        \* Date.now()
    ticks,      \* number of clock advances so far
    upstream,   \* upstream[k]: version of the deck page content of key k
    recs,       \* heap of cache records, a record's reference is its index
    deckCache,  \* deckCache[k]: reference of the record stored for k, or None
    inFlight,   \* inFlight[k]: the build whose promise the map holds, or None
    builds,     \* builds[b]: a buildAndCache execution and its promises
    calls       \* calls[c]: the request in slot c and its getDeckCached call

vars == <<now, ticks, upstream, recs, deckCache, inFlight, builds, calls>>

\* ------------------------------------------------------------ pure helpers

\* hash of the parts of the payload returned to the client
weakEtagForPayload(payload) == <<"W", payload.content>>

\* a makeCacheRecord that hashes the page signature along with the payload
makeCacheRecordHashesSig(payload, pageSig, t) ==
    [payload    |-> payload,
     etag       |-> <<"W", payload.content, pageSig>>,
     freshUntil |-> t + FRESH_TTL_MS,
     swrUntil   |-> t + SWR_TTL_MS,
     pageSig    |-> pageSig]

makeCacheRecord(payload, pageSig, t) ==
    [payload    |-> payload,
     etag       |-> weakEtagForPayload(payload),
     freshUntil |-> t + FRESH_TTL_MS,
     swrUntil   |-> t + SWR_TTL_MS,
     pageSig    |-> pageSig]

\* isFresh with the comparison turned round
isFreshInverted(ref, t) == ref # None /\ t > recs[ref].freshUntil

isFresh(ref, t) == ref # None /\ t < recs[ref].freshUntil

withinSWR(ref, t) == ref # None /\ t < recs[ref].swrUntil

\* bumpFreshness that extends the fresh window only
bumpFreshnessFreshOnly(rec, t) == [rec EXCEPT !.freshUntil = t + FRESH_TTL_MS]

\* bumpFreshness that extends the SWR window only
bumpFreshnessSwrOnly(rec, t) == [rec EXCEPT !.swrUntil = t + SWR_TTL_MS]

bumpFreshness(rec, t) ==
    [rec EXCEPT !.freshUntil = t + FRESH_TTL_MS, !.swrUntil = t + SWR_TTL_MS]

\* the signature a probe of content version v yields with strategy s
\* ('H|etag|lastMod|len' from HEAD, 'G|etag|lastMod|len|bodyHash' from GET)
PageSignature(s, v) == <<s, v>>

\* how the provider's host answers the HEAD request: ok with a validator (etag,
\* last-modified or content-length), ok without any, a non-OK status (405
\* from some CDNs), or a network error
HeadAnswers == {"ok", "bare", "notok", "throw"}
\* ... and the GET request: a non-OK status or a network error (a host that
\* answers at all answers HEAD with validators)
GetAnswers == {"notok", "throw"}

\* fetchPageSignature that does not look at the status of the GET answer and
\* hashes whatever body came
fetchPageSignatureIgnoresStatus(head, get, v) ==
    IF head = "ok" THEN PageSignature("H", v)
    ELSE IF get # "throw" THEN PageSignature("G", IF get = "ok" THEN v ELSE None)
    ELSE NullSig

\* fetchPageSignature(url) for a page of content version v: HEAD first, then
\* GET; every error is caught, and null returned when GET fails too
fetchPageSignature(head, get, v) ==
    IF head = "ok" THEN PageSignature("H", v)
    ELSE IF get = "ok" THEN PageSignature("G", v)
    ELSE NullSig

\* what fetchDeckPageSignature can return for key k: a signature, or null
\* when both the HEAD and the GET strategy fail
fetchDeckPageSignature(k) ==
    {fetchPageSignature(head, get, upstream[k]) : head \in HeadAnswers, get \in GetAnswers}

\* the renew test without the check that the probe returned a signature
SignatureUnchangedNoNullCheck(ref, sig) == ref # None /\ recs[ref].pageSig = sig

\* the renew test of getDeckCached
SignatureUnchanged(ref, sig) ==
    ref # None /\ sig # NullSig /\ recs[ref].pageSig = sig

\* ----------------------------------------------------------- free objects

FreeRec ==
    [payload |-> [key |-> None, content |-> None], etag |-> NullSig,
     freshUntil |-> 0, swrUntil |-> 0, pageSig |-> NullSig]

FreeBuild ==
    [key |-> None, kind |-> "none", stage |-> "free", sig |-> NullSig,
     content |-> None, rec |-> None, finalized |-> FALSE, group |-> FALSE]

\* cached is the local variable of getDeckCached; had, needBlock, starter and
\* peerBuilt only observe the call: a record existed when it started; it
\* started with no record or with one past swrUntil; it invoked buildAndCache
\* itself; while it awaited its preflight, the blocking rebuild started by
\* another caller that started with no record or one past swrUntil installed
\* its record (group marks such a build)
IdleCall ==
    [pc |-> "idle", key |-> None, force |-> FALSE, cached |-> None, had |-> FALSE,
     sig |-> NullSig, awaits |-> None, ret |-> "none", outcome |-> "none",
     result |-> None, needBlock |-> FALSE, starter |-> FALSE, peerBuilt |-> FALSE]

\* buildAndCache's own promise is settled
BuildSettled(b) == builds[b].stage \in {"resolved", "rejected"}

\* a settled build nothing refers to: no caller awaits it, inFlight does not
\* hold it, and its .finally (if it has one) has run
Reclaimable(bs, inf, cs, b) ==
    /\ bs[b].stage \in {"resolved", "rejected"}
    /\ bs[b].kind = "force" \/ bs[b].finalized
    /\ \A k \in Keys : inf[k] # b
    /\ \A c \in CallIds : ~(cs[c].pc = "await" /\ cs[c].awaits = b)

\* The next state, with the objects nothing refers to reclaimed.  References
\* are names of objects, so the live objects are renamed in a fixed order
\* (requests and builds in the order of their slots, records in the order in
\* which the store, the requests and the builds refer to them).
Commit(nrecs, ndeck, ninf, nbuilds, ncalls) ==
    LET liveB == {b \in BuildIds :
                     nbuilds[b].stage # "free" /\ ~Reclaimable(nbuilds, ninf, ncalls, b)}
        nameB(b) == IF b \in liveB THEN Cardinality({q \in liveB : q <= b}) ELSE None
        liveC == {c \in CallIds : ncalls[c].pc # "idle"}
        nameC(c) == Cardinality({q \in liveC : q <= c})
        N == NumKeys + 2 * MaxCalls + MaxBuilds
        refAt(i) ==
            IF i <= NumKeys THEN ndeck[i]
            ELSE IF i <= NumKeys + MaxCalls THEN ncalls[i - NumKeys].cached
            ELSE IF i <= NumKeys + 2 * MaxCalls THEN ncalls[i - NumKeys - MaxCalls].result
            ELSE IF (i - NumKeys - 2 * MaxCalls) \in liveB
                   THEN nbuilds[i - NumKeys - 2 * MaxCalls].rec
            ELSE None
        used == {refAt(i) : i \in 1..N} \ {None}
        first(r) == CHOOSE i \in 1..N : refAt(i) = r /\ \A j \in 1..(i - 1) : refAt(j) # r
        nameR(r) == IF r = None THEN None
                    ELSE Cardinality({refAt(j) : j \in 1..first(r)} \ {None})
    IN /\ recs' = [n \in RecIds |->
                     IF \E r \in used : nameR(r) = n
                       THEN nrecs[CHOOSE r \in used : nameR(r) = n]
                       ELSE FreeRec]
       /\ deckCache' = [k \in Keys |-> nameR(ndeck[k])]
       /\ inFlight' = [k \in Keys |-> IF ninf[k] = None THEN None ELSE nameB(ninf[k])]
       /\ builds' = [n \in BuildIds |->
                       IF \E b \in liveB : nameB(b) = n
                         THEN LET b == CHOOSE q \in liveB : nameB(q) = n
                              IN [nbuilds[b] EXCEPT !.rec = nameR(@)]
                         ELSE FreeBuild]
       /\ calls' = [n \in CallIds |->
                      IF \E c \in liveC : nameC(c) = n
                        THEN LET c == CHOOSE q \in liveC : nameC(q) = n
                             IN [ncalls[c] EXCEPT !.cached = nameR(@), !.result = nameR(@),
                                    !.awaits = IF @ = None THEN None ELSE nameB(@)]
                        ELSE IdleCall]

FreshRef == CHOOSE r \in RecIds : recs[r] = FreeRec /\ \A q \in RecIds : q < r => recs[q] # FreeRec

CanBuild == \E b \in BuildIds : builds[b].stage = "free"

FreshBuild == CHOOSE b \in BuildIds :
    builds[b].stage = "free" /\ \A q \in BuildIds : q < b => builds[q].stage # "free"

\* getDeckCached goes on in the same run in which its preflight returns, and
\* the route answers in the same run in which getDeckCached returns: until
\* then nothing else runs
Running == \A c \in CallIds : calls[c].pc \notin {"probed", "done"}

\* reactions of a settled promise are queued as microtasks: the .finally of a
\* settled build, the continuation of a caller whose awaited promise settled
Draining ==
    \E b \in BuildIds :
        /\ BuildSettled(b)
        /\ \/ builds[b].kind \in {"swr", "block"} /\ ~builds[b].finalized
           \/ \E c \in CallIds :
                 /\ calls[c].pc = "await" /\ calls[c].awaits = b
                 /\ builds[b].kind = "force" \/ builds[b].finalized

\* a new task (a request, a network answer, a timer) runs only once the
\* microtask queue is empty
TaskMayRun == Running /\ ~Draining

\* ------------------------------------------------------------------- Init

Init ==
    /\ now = 0
    /\ ticks = 0
    /\ upstream = [k \in Keys |-> 1]
    /\ recs = [r \in RecIds |-> FreeRec]
    /\ deckCache = [k \in Keys |-> None]
    /\ inFlight = [k \in Keys |-> None]
    /\ builds = [b \in BuildIds |-> FreeBuild]
    /\ calls = [c \in CallIds |-> IdleCall]

\* ----------------------------------------------------------------- clock

\* Date.now() advances; the steps land exactly on the two window boundaries
Tick(d) ==
    /\ TaskMayRun
    /\ ticks < MaxTicks
    /\ now' = now + d
    /\ ticks' = ticks + 1
    /\ UNCHANGED <<upstream, recs, deckCache, inFlight, builds, calls>>

\* the deck's owner edits the deck on the provider's site
UpstreamChange(k) ==
    /\ TaskMayRun
    /\ upstream[k] < MaxVersion
    /\ upstream' = [upstream EXCEPT ![k] = @ + 1]
    /\ UNCHANGED <<now, ticks, recs, deckCache, inFlight, builds, calls>>

\* ---------------------------------------------------------- buildAndCache

\* buildAndCache(provider, deckId, key, pageSigFromPreflight) up to its first
\* await: the scrape (the Extractor) is invoked at once
NewBuild(k, kind, sig, group) ==
    [key |-> k, kind |-> kind, stage |-> "scrape", sig |-> sig,
     content |-> None, rec |-> None, finalized |-> FALSE, group |-> group]

\* const rec = makeCacheRecord(fresh, pageSig); deckCache.set(key, rec); return rec
InstallRecord(b, content, pageSig) ==
    LET k == builds[b].key
        ref == FreshRef
    IN Commit([recs EXCEPT ![ref] = makeCacheRecord([key |-> k, content |-> content],
                                                    pageSig, now)],
              [deckCache EXCEPT ![k] = ref],
              inFlight,
              [builds EXCEPT ![b].stage = "resolved", ![b].content = None,
                             ![b].sig = NullSig, ![b].rec = ref],
              [d \in CallIds |->
                  IF /\ builds[b].kind = "block" /\ builds[b].group
                     /\ calls[d].pc = "probe" /\ calls[d].key = k /\ calls[d].needBlock
                    THEN [calls[d] EXCEPT !.peerBuilt = TRUE]
                    ELSE calls[d]])

\* a scrape that stores its payload at once, before buildAndCache has the
\* signature and makes the record
ScrapeDoneStoresEarly(b, ok) ==
    /\ TaskMayRun
    /\ builds[b].stage = "scrape"
    /\ IF ~ok
         THEN Commit(recs, deckCache, inFlight,
                     [builds EXCEPT ![b].stage = "rejected", ![b].sig = NullSig], calls)
         ELSE IF builds[b].sig # NullSig
           THEN InstallRecord(b, upstream[builds[b].key], builds[b].sig)
           ELSE Commit([recs EXCEPT ![FreshRef] =
                           [FreeRec EXCEPT !.payload = [key |-> builds[b].key,
                                                        content |-> upstream[builds[b].key]]]],
                       [deckCache EXCEPT ![builds[b].key] = FreshRef], inFlight,
                       [builds EXCEPT ![b].stage = "probe",
                                      ![b].content = upstream[builds[b].key]], calls)
    /\ UNCHANGED <<now, ticks, upstream>>

\* a buildAndCache that drops the key's record when its scrape fails
ScrapeDoneDropsOnFailure(b, ok) ==
    /\ TaskMayRun
    /\ builds[b].stage = "scrape"
    /\ IF ~ok
         THEN Commit(recs, [deckCache EXCEPT ![builds[b].key] = None], inFlight,
                     [builds EXCEPT ![b].stage = "rejected", ![b].sig = NullSig], calls)
         ELSE IF builds[b].sig # NullSig
           THEN InstallRecord(b, upstream[builds[b].key], builds[b].sig)
           ELSE Commit(recs, deckCache, inFlight,
                       [builds EXCEPT ![b].stage = "probe",
                                      ![b].content = upstream[builds[b].key]], calls)
    /\ UNCHANGED <<now, ticks, upstream>>

\* a buildAndCache that, when its scrape fails, extends the stored record
ScrapeDoneRenewsOnFailure(b, ok) ==
    /\ TaskMayRun
    /\ builds[b].stage = "scrape"
    /\ IF ~ok
         THEN Commit(IF deckCache[builds[b].key] = None THEN recs
                     ELSE [recs EXCEPT ![deckCache[builds[b].key]] = bumpFreshness(@, now)],
                     deckCache, inFlight,
                     [builds EXCEPT ![b].stage = "rejected", ![b].sig = NullSig], calls)
         ELSE IF builds[b].sig # NullSig
           THEN InstallRecord(b, upstream[builds[b].key], builds[b].sig)
           ELSE Commit(recs, deckCache, inFlight,
                       [builds EXCEPT ![b].stage = "probe",
                                      ![b].content = upstream[builds[b].key]], calls)
    /\ UNCHANGED <<now, ticks, upstream>>

\* the scrape of build b returns the rows of the page as it is now, or throws
ScrapeDone(b, ok) ==
    /\ TaskMayRun
    /\ builds[b].stage = "scrape"
    /\ IF ~ok
         THEN Commit(recs, deckCache, inFlight,
                     [builds EXCEPT ![b].stage = "rejected", ![b].sig = NullSig], calls)
         ELSE IF builds[b].sig # NullSig
           THEN InstallRecord(b, upstream[builds[b].key], builds[b].sig)
           ELSE Commit(recs, deckCache, inFlight,
                       [builds EXCEPT ![b].stage = "probe",
                                      ![b].content = upstream[builds[b].key]], calls)
    /\ UNCHANGED <<now, ticks, upstream>>

\* no preflight signature: the signature is probed after the scrape
BuildProbeDone(b, s) ==
    /\ TaskMayRun
    /\ builds[b].stage = "probe"
    /\ s \in fetchDeckPageSignature(builds[b].key)
    /\ InstallRecord(b, builds[b].content, s)
    /\ UNCHANGED <<now, ticks, upstream>>

\* .then(() => inFlight.delete(key)) in place of .finally: the entry is
\* removed only when the build succeeded
FinallyRunOnSuccessOnly(b) ==
    /\ Running
    /\ builds[b].kind \in {"swr", "block"}
    /\ BuildSettled(b)
    /\ ~builds[b].finalized
    /\ Commit(recs, deckCache,
              IF builds[b].stage = "resolved"
                THEN [inFlight EXCEPT ![builds[b].key] = None] ELSE inFlight,
              [builds EXCEPT ![b].finalized = TRUE], calls)
    /\ UNCHANGED <<now, ticks, upstream>>

\* a .finally that empties the in-flight map
FinallyRunClearsMap(b) ==
    /\ Running
    /\ builds[b].kind \in {"swr", "block"}
    /\ BuildSettled(b)
    /\ ~builds[b].finalized
    /\ Commit(recs, deckCache, [k \in Keys |-> None],
              [builds EXCEPT ![b].finalized = TRUE], calls)
    /\ UNCHANGED <<now, ticks, upstream>>

\* .finally(() => inFlight.delete(key)) of a build registered in inFlight
FinallyRun(b) ==
    /\ Running
    /\ builds[b].kind \in {"swr", "block"}
    /\ BuildSettled(b)
    /\ ~builds[b].finalized
    /\ Commit(recs, deckCache, [inFlight EXCEPT ![builds[b].key] = None],
              [builds EXCEPT ![b].finalized = TRUE], calls)
    /\ UNCHANGED <<now, ticks, upstream>>

\* inFlight holding buildAndCache's own promise, with the .finally attached
\* to it afterwards: the callers' continuations are not ordered after it
PromiseSettledInner(b) == BuildSettled(b)

\* the promise a caller of build b awaits is settled: buildAndCache's own
\* promise for a forced call, the promise stored in inFlight (the one
\* .finally returns) for a blocking call
PromiseSettled(b) ==
    IF builds[b].kind = "force" THEN BuildSettled(b) ELSE builds[b].finalized

\* what awaiting the promise of build b yields; the .catch of a background
\* refresh turns a rejection into a fulfilment with console.error's undefined
PromiseOutcome(b) ==
    IF builds[b].stage = "resolved" THEN "record"
    ELSE IF builds[b].kind = "swr" THEN "undefined"
    ELSE "error"

\* ----------------------------------------------------------- getDeckCached

\* lines 349-366: read the store, then force / fresh / start the preflight
CallStart(c, k, force) ==
    /\ TaskMayRun
    /\ calls[c].pc = "idle"
    /\ \A d \in CallIds : d < c => calls[d].pc # "idle"
    /\ LET cached == deckCache[k]
           me == [IdleCall EXCEPT !.key = k, !.force = force, !.had = cached # None,
                     !.needBlock = ~force /\ ~withinSWR(cached, now)]
       IN IF force
            THEN /\ CanBuild
                 /\ Commit(recs, deckCache, inFlight,
                           [builds EXCEPT ![FreshBuild] = NewBuild(k, "force", NullSig, FALSE)],
                           [calls EXCEPT ![c] =
                               [me EXCEPT !.pc = "await", !.awaits = FreshBuild,
                                          !.cached = cached, !.starter = TRUE]])
            ELSE IF isFresh(cached, now)
              THEN Commit(recs, deckCache, inFlight, builds,
                          [calls EXCEPT ![c] =
                              [me EXCEPT !.pc = "done", !.ret = "fresh", !.cached = cached,
                                         !.outcome = "record", !.result = cached]])
              ELSE Commit(recs, deckCache, inFlight, builds,
                          [calls EXCEPT ![c] = [me EXCEPT !.pc = "probe", !.cached = cached]])
    /\ UNCHANGED <<now, ticks, upstream>>

\* the inFlight.set calls without their guard
MustStartBuildUnguarded(k) == TRUE

\* if (!inFlight.has(key)) guarding both inFlight.set calls
MustStartBuild(k) == inFlight[k] = None

\* lines 363-369: the preflight returned sig (null when it failed)
ProbeReturn(c, sig) ==
    /\ TaskMayRun
    /\ calls[c].pc = "probe"
    /\ sig \in fetchDeckPageSignature(calls[c].key)
    /\ inFlight[calls[c].key] = None => CanBuild
    /\ Commit(recs, deckCache, inFlight, builds,
              [calls EXCEPT ![c] = [@ EXCEPT !.pc = "probed", !.sig = sig]])
    /\ UNCHANGED <<now, ticks, upstream>>

\* lines 371-400, in the same run: renew / serve stale / block.
\* A call that blocks never reads cached or sig again.
Decide(c) ==
    /\ calls[c].pc = "probed"
    /\ LET k == calls[c].key
           cached == calls[c].cached
           sig == calls[c].sig
           me == calls[c]
           kind == IF withinSWR(cached, now) THEN "swr" ELSE "block"
           start == MustStartBuild(k)
           b == IF start THEN FreshBuild ELSE inFlight[k]
       IN IF SignatureUnchanged(cached, sig)
            THEN Commit([recs EXCEPT ![cached] = bumpFreshness(@, now)],
                        [deckCache EXCEPT ![k] = cached],
                        inFlight, builds,
                        [calls EXCEPT ![c] =
                            [me EXCEPT !.pc = "done", !.ret = "renew",
                                       !.outcome = "record", !.result = cached]])
            ELSE /\ start => CanBuild
                 /\ Commit(recs, deckCache,
                           IF start THEN [inFlight EXCEPT ![k] = b] ELSE inFlight,
                           IF start THEN [builds EXCEPT ![b] = NewBuild(k, kind, sig, calls[c].needBlock)]
                                    ELSE builds,
                           [calls EXCEPT ![c] =
                               IF kind = "swr"
                                 THEN [me EXCEPT !.pc = "done", !.ret = "swr",
                                                 !.starter = start,
                                                 !.outcome = "record", !.result = cached]
                                 ELSE [me EXCEPT !.pc = "await", !.awaits = b,
                                                 !.starter = start, !.cached = None,
                                                 !.sig = NullSig]])
    /\ UNCHANGED <<now, ticks, upstream>>

\* a forced call that prefers the record it read from the store
AwaitDoneReturnsCached(c) ==
    /\ Running
    /\ calls[c].pc = "await"
    /\ PromiseSettled(calls[c].awaits)
    /\ LET b == calls[c].awaits
       IN Commit(recs, deckCache, inFlight, builds,
                 [calls EXCEPT ![c] =
                     [@ EXCEPT !.pc = "done",
                               !.ret = IF calls[c].force THEN "force" ELSE "block",
                               !.outcome = PromiseOutcome(b),
                               !.result = IF calls[c].cached # None THEN calls[c].cached
                                          ELSE builds[b].rec]])
    /\ UNCHANGED <<now, ticks, upstream>>

\* the awaited promise settled: return await buildAndCache(...) of a forced
\* call, const rec = await inFlight.get(key); return rec of a blocking call
AwaitDone(c) ==
    /\ Running
    /\ calls[c].pc = "await"
    /\ PromiseSettled(calls[c].awaits)
    /\ LET b == calls[c].awaits
       IN Commit(recs, deckCache, inFlight, builds,
                 [calls EXCEPT ![c] =
                     [@ EXCEPT !.pc = "done",
                               !.ret = IF calls[c].force THEN "force" ELSE "block",
                               !.outcome = PromiseOutcome(b),
                               !.result = builds[b].rec]])
    /\ UNCHANGED <<now, ticks, upstream>>

\* ------------------------------------------------------------- /api/deck

\* a route that compares If-None-Match with the etag of the record the store
\* holds for the key now
RouteStatusStoreEtag(c, clientETag) ==
    IF calls[c].outcome = "record"
      THEN IF clientETag # NullSig /\ deckCache[calls[c].key] # None
              /\ clientETag = recs[deckCache[calls[c].key]].etag
             THEN 304 ELSE 200
      ELSE IF calls[c].outcome = "badrequest" THEN 400
      ELSE 500

\* the status the route answers for a finished getDeckCached call, given the
\* request's If-None-Match (NullSig for none): rec.etag of an undefined rec
\* throws into the catch, like a rejected getDeckCached
RouteStatus(c, clientETag) ==
    IF calls[c].outcome = "record"
      THEN IF clientETag # NullSig /\ clientETag = recs[calls[c].result].etag
             THEN 304 ELSE 200
      ELSE IF calls[c].outcome = "badrequest" THEN 400
      ELSE 500

\* setClientCacheHeaders: public, max-age=<fresh s>, stale-while-revalidate=<s>
CacheControl ==
    [maxAge |-> FRESH_TTL_MS \div 1000,
     staleWhileRevalidate |-> (SWR_TTL_MS - FRESH_TTL_MS) \div 1000]

\* the response of the route to a finished getDeckCached call
RouteResponse(c, clientETag) ==
    LET status == RouteStatus(c, clientETag)
        rec == recs[calls[c].result]
    IN IF status \in {400, 500}
         THEN [status |-> status, body |-> "error", etag |-> NullSig, cacheControl |-> NullSig]
         ELSE [status |-> status,
               body |-> IF status = 304 THEN "none" ELSE rec.payload,
               etag |-> rec.etag,
               cacheControl |-> CacheControl]

\* the route has answered request c (res.json / res.status(..).end()); the
\* request is over
Respond(c) ==
    /\ calls[c].pc = "done"
    /\ Commit(recs, deckCache, inFlight, builds, [calls EXCEPT ![c] = IdleCall])
    /\ UNCHANGED <<now, ticks, upstream>>

\* the url parameter of a request: absent, or naming a host and, after
\* "/decks/", digits, other text, or nothing
Urls ==
    {[present |-> FALSE, host |-> "none", id |-> "none"]}
    \cup [present : {TRUE}, host : {"archidekt", "moxfield", "other"},
          id : {"digits", "text", "none"}]

\* the route's parsing with the Moxfield pattern for both providers
ParseDeckUrlAnyId(url) ==
    IF ~url.present THEN "Missing deck URL"
    ELSE IF url.host \in {"archidekt", "moxfield"}
      THEN IF url.id # "none" THEN "ok"
           ELSE IF url.host = "archidekt" THEN "Invalid Archidekt URL"
           ELSE "Invalid Moxfield URL"
    ELSE "Unsupported deck provider"

\* lines 428-445: "ok" when provider and deckId are found, else the error of
\* the 400 answer; Archidekt ids match /decks\/(\d+)/, Moxfield ids
\* /\/decks\/([^/]+)/
ParseDeckUrl(url) ==
    IF ~url.present THEN "Missing deck URL"
    ELSE IF url.host = "archidekt"
      THEN IF url.id = "digits" THEN "ok" ELSE "Invalid Archidekt URL"
    ELSE IF url.host = "moxfield"
      THEN IF url.id # "none" THEN "ok" ELSE "Invalid Moxfield URL"
    ELSE "Unsupported deck provider"

\* a request whose url does not parse is answered 400 at once, before
\* getDeckCached is called
BadRequest(c, url) ==
    /\ TaskMayRun
    /\ calls[c].pc = "idle"
    /\ \A d \in CallIds : d < c => calls[d].pc # "idle"
    /\ ParseDeckUrl(url) # "ok"
    /\ Commit(recs, deckCache, inFlight, builds,
              [calls EXCEPT ![c] =
                  [IdleCall EXCEPT !.pc = "done", !.ret = "invalid",
                                   !.outcome = "badrequest"]])
    /\ UNCHANGED <<now, ticks, upstream>>

\* ------------------------------------------------------------------ Next

Next ==
    \/ \E d \in {FRESH_TTL_MS, SWR_TTL_MS} : Tick(d)
    \/ \E k \in OneKey : UpstreamChange(k)
    \/ \E c \in CallIds, k \in OneKey, force \in BOOLEAN : CallStart(c, k, force)
    \/ \E c \in CallIds, url \in Urls : BadRequest(c, url)
    \/ \E c \in CallIds :
         \E sig \in {NullSig} \cup {PageSignature(st, v) : st \in Strategies, v \in Versions} :
           ProbeReturn(c, sig)
    \/ \E c \in CallIds : Decide(c)
    \/ \E c \in CallIds : AwaitDone(c)
    \/ \E c \in CallIds : Respond(c)
    \/ \E b \in BuildIds, ok \in BOOLEAN : ScrapeDone(b, ok)
    \/ \E b \in BuildIds :
         \E s \in {NullSig} \cup {PageSignature(st, v) : st \in Strategies, v \in Versions} :
           BuildProbeDone(b, s)
    \/ \E b \in BuildIds : FinallyRun(b)

Spec == Init /\ [][Next]_vars

\* ================================================================ claims

Done(c) == calls[c].pc = "done"

\* the builds of key k whose buildAndCache is executing
RunningBuilds(k) == {b \in BuildIds : builds[b].key = k /\ builds[b].stage \in {"scrape", "probe"}}

\* request c takes its decision now, with a record and without renewing it
ServesOrBlocks(c) ==
    /\ calls[c].pc = "probed"
    /\ ~(calls[c].cached # None /\ calls[c].sig # NullSig
         /\ recs[calls[c].cached].pageSig = calls[c].sig)

\* C1: concurrent non-forced calls that each needed a blocking rebuild when
\* they started (no record, or the record past swrUntil) invoke the Extractor
\* once: none of them invokes it after the blocking rebuild that a concurrent
\* one of them started has installed its record.
C1_SingleExtraction ==
    \A c \in CallIds :
        ~(calls[c].needBlock /\ calls[c].starter /\ calls[c].peerBuilt)

\* C2: at most one buildAndCache execution per key is in progress, whoever
\* started it (forced resolve, background refresh, blocking rebuild).
C2_OneBuildPerKey == \A k \in Keys : Cardinality(RunningBuilds(k)) <= 1

\* C3: a call that decides with a record inside its SWR window and a probe
\* signature that is null or differs from the stored one returns that record
\* in the same run, starts no build when inFlight holds one for the key, and
\* leaves at most one build registered in inFlight executing for the key.
C3_ServeStaleOneRefresh ==
    [][\A c \in CallIds :
          (/\ ServesOrBlocks(c)
           /\ calls[c].cached # None
           /\ now < recs[calls[c].cached].swrUntil)
          => /\ calls'[c].pc = "done"
             /\ calls'[c].outcome = "record"
             /\ calls'[c].result = calls'[c].cached
             /\ recs'[calls'[c].result] = recs[calls[c].cached]
             /\ inFlight[calls[c].key] # None =>
                    RunningBuilds(calls[c].key)' = RunningBuilds(calls[c].key)
             /\ Cardinality({b \in RunningBuilds(calls[c].key)' :
                                builds'[b].kind \in {"swr", "block"}}) <= 1]_vars

C3_Witness ==
    \E c \in CallIds :
        /\ Done(c) /\ calls[c].ret = "swr" /\ ~calls[c].starter
        /\ calls[c].sig # NullSig /\ calls[c].sig # recs[calls[c].result].pageSig
        /\ inFlight[calls[c].key] # None

\* C4: a call that decides with a record and a non-null probe signature equal
\* to the record's pageSig returns that record with the same payload and etag
\* and with freshUntil = now + FRESH_TTL_MS, swrUntil = now + SWR_TTL_MS, and
\* starts no build.
C4_RenewOnEqualSignature ==
    [][\A c \in CallIds :
          (/\ calls[c].pc = "probed"
           /\ calls[c].cached # None
           /\ calls[c].sig # NullSig
           /\ calls[c].sig = recs[calls[c].cached].pageSig)
          => /\ calls'[c].pc = "done"
             /\ calls'[c].outcome = "record"
             /\ calls'[c].result = calls'[c].cached
             /\ recs'[calls'[c].result].payload = recs[calls[c].cached].payload
             /\ recs'[calls'[c].result].etag = recs[calls[c].cached].etag
             /\ recs'[calls'[c].result].pageSig = recs[calls[c].cached].pageSig
             /\ recs'[calls'[c].result].freshUntil = now + FRESH_TTL_MS
             /\ recs'[calls'[c].result].swrUntil = now + SWR_TTL_MS
             /\ builds' = builds
             /\ inFlight' = inFlight]_vars

\* a renewal of a record that was no longer fresh, past its SWR window even
C4_Witness ==
    \E c \in CallIds :
        /\ Done(c) /\ calls[c].ret = "renew"
        /\ now >= SWR_TTL_MS
        /\ recs[calls[c].result].freshUntil = now + FRESH_TTL_MS

\* C5: a non-forced call that starts while the store holds a fresh record for
\* its key returns that record in the same run: no probe, no build, no
\* in-flight entry, and the record and the store unchanged.
C5_FreshHit ==
    [][\A c \in CallIds :
          (/\ calls[c].pc = "idle"
           /\ calls'[c].pc # "idle"
           /\ ~calls'[c].force
           /\ calls'[c].key \in Keys
           /\ deckCache[calls'[c].key] # None
           /\ now < recs[deckCache[calls'[c].key]].freshUntil)
          => /\ calls'[c].pc = "done"
             /\ calls'[c].outcome = "record"
             /\ calls'[c].result = deckCache'[calls'[c].key]
             /\ recs'[calls'[c].result] = recs[deckCache[calls'[c].key]]
             /\ deckCache' = deckCache
             /\ inFlight' = inFlight
             /\ builds' = builds]_vars

\* a fresh hit while the upstream deck has changed since the record was built
C5_Witness ==
    \E c \in CallIds :
        /\ Done(c) /\ calls[c].ret = "fresh"
        /\ recs[calls[c].result].payload.content # upstream[calls[c].key]

\* C6: a blocking call that had a record when it started returns a record
\* (the stale one when the build failed); it raises only when it had none.
C6_StaleFallback ==
    \A c \in CallIds :
        (Done(c) /\ calls[c].ret = "block" /\ calls[c].had) => calls[c].outcome = "record"

\* C7: /api/deck answers 500 only to a request for whose key no record
\* existed when it arrived.
C7_ErrorOnlyOnColdStart ==
    \A c \in CallIds :
        Done(c) => \A clientETag \in {NullSig} \cup {weakEtagForPayload([content |-> v]) : v \in Versions} :
                      RouteStatus(c, clientETag) = 500 => ~calls[c].had

\* C8: a call that decides with a null probe signature never renews: the
\* record it holds keeps its freshness window, and the call serves it stale or
\* blocks on a rebuild.
C8_NullIsUnknown ==
    [][\A c \in CallIds :
          (calls[c].pc = "probed" /\ calls[c].sig = NullSig)
          => /\ calls'[c].ret # "renew"
             /\ \/ calls'[c].pc = "await"
                \/ /\ calls'[c].pc = "done" /\ calls'[c].ret = "swr"
                   /\ recs'[calls'[c].result] = recs[calls[c].cached]
             /\ deckCache[calls[c].key] # None =>
                    recs'[deckCache'[calls[c].key]] = recs[deckCache[calls[c].key]]]_vars

\* a null probe against a record whose stored pageSig is null too
C8_Witness ==
    \E c \in CallIds :
        /\ Done(c) /\ calls[c].ret = "swr"
        /\ calls[c].sig = NullSig
        /\ recs[calls[c].result].pageSig = NullSig

\* C9: a caller that has resumed from awaiting a build never finds inFlight
\* still holding that build.
C9_ClearedBeforeObserved ==
    \A c \in CallIds :
        (Done(c) /\ calls[c].awaits # None) => inFlight[calls[c].key] # calls[c].awaits

\* two callers awaited the same build; the first has resumed, the second has not
C9_Witness ==
    \E c, d \in CallIds :
        /\ Done(c) /\ calls[c].ret = "block" /\ calls[c].awaits # None
        /\ calls[d].pc = "await" /\ calls[d].awaits = calls[c].awaits
        /\ inFlight[calls[c].key] = None

\* C10: inFlight holds a build of the key whose .finally has not run, and an
\* executing one whenever a new task starts; the caller of a failed build
\* finds no entry for the key; and a call that decides to rebuild while
\* inFlight has no entry for the key invokes the Extractor anew.
C10_FailureDoesNotBlock ==
    /\ [](\A k \in Keys :
            /\ inFlight[k] # None =>
                  /\ builds[inFlight[k]].key = k
                  /\ builds[inFlight[k]].kind \in {"swr", "block"}
                  /\ ~builds[inFlight[k]].finalized
                  /\ TaskMayRun => inFlight[k] \in RunningBuilds(k)
            /\ \A c \in CallIds :
                  (Done(c) /\ calls[c].ret = "block" /\ calls[c].outcome # "record"
                   /\ calls[c].key = k) => inFlight[k] = None)
    /\ [][\A c \in CallIds :
             (ServesOrBlocks(c) /\ inFlight[calls[c].key] = None)
             => /\ inFlight'[calls[c].key] # None
                /\ builds'[inFlight'[calls[c].key]].stage = "scrape"
                /\ Cardinality(RunningBuilds(calls[c].key)')
                     = Cardinality(RunningBuilds(calls[c].key)) + 1]_vars

\* the caller of a failed blocking build has its error and the entry is gone
C10_Witness ==
    \E c \in CallIds :
        /\ Done(c) /\ calls[c].ret = "block" /\ calls[c].outcome = "error"
        /\ inFlight[calls[c].key] = None

\* no request leaves in this step: the requests keep their slots
CallsStay == \A d \in CallIds : calls[d].pc # "idle" => calls'[d].pc # "idle"

\* C11: a record a caller has read from the store (the cached of a call that
\* awaits its preflight) keeps its payload, etag, freshUntil and swrUntil
\* whatever else runs meanwhile: records are replaced, never modified.
C11_RecordsImmutable ==
    [][CallsStay =>
          \A c \in CallIds :
             (/\ calls[c].pc = "probe" /\ calls'[c].pc = "probe"
              /\ calls[c].cached # None)
             => recs'[calls'[c].cached] = recs[calls[c].cached]]_vars

\* ------------------------------------------------- time without an end

\* The code reads the clock only to compare it with a record's freshUntil and
\* swrUntil and to set them to the clock plus a constant, so what it does
\* depends on the windows relative to the clock only.  Elapse lets d ms pass
\* in these relative terms: every window comes d nearer, and a window that is
\* over stays over.
Elapse(d) ==
    /\ TaskMayRun
    /\ recs' = [r \in RecIds |->
                  IF recs[r] = FreeRec THEN FreeRec
                  ELSE [recs[r] EXCEPT
                          !.freshUntil = IF @ - d > now THEN @ - d ELSE now,
                          !.swrUntil = IF @ - d > now THEN @ - d ELSE now]]
    /\ recs' # recs
    /\ UNCHANGED <<now, ticks, upstream, deckCache, inFlight, builds, calls>>

\* the first request slot: with it alone, a request arrives only when the one
\* before it has been answered (builds still run in the background)
OneAtATime == {c \in CallIds : \A d \in CallIds : c <= d}

\* the server with time that never ends, serving non-forced and forced
\* requests that arrive one after the other
LiveNext ==
    \/ \E d \in {FRESH_TTL_MS, SWR_TTL_MS} : Elapse(d)
    \/ \E k \in OneKey : UpstreamChange(k)
    \/ \E c \in OneAtATime, k \in OneKey, force \in BOOLEAN : CallStart(c, k, force)
    \/ \E c \in CallIds :
         \E sig \in {NullSig} \cup {PageSignature(st, v) : st \in Strategies, v \in Versions} :
           ProbeReturn(c, sig)
    \/ \E c \in CallIds : Decide(c)
    \/ \E c \in CallIds : AwaitDone(c)
    \/ \E c \in CallIds : Respond(c)
    \/ \E b \in BuildIds, ok \in BOOLEAN : ScrapeDone(b, ok)
    \/ \E b \in BuildIds :
         \E s \in {NullSig} \cup {PageSignature(st, v) : st \in Strategies, v \in Versions} :
           BuildProbeDone(b, s)
    \/ \E b \in BuildIds : FinallyRun(b)

\* the event loop runs every continuation that is ready: the rest of
\* getDeckCached after its preflight, the .finally of a settled build, the
\* callers of a settled promise, the route's answer
LiveSpec ==
    /\ Init
    /\ [][LiveNext]_vars
    /\ WF_vars(\E c \in CallIds : Decide(c))
    /\ WF_vars(\E b \in BuildIds : FinallyRun(b))
    /\ WF_vars(\E c \in CallIds : AwaitDone(c))
    /\ WF_vars(\E c \in CallIds : Respond(c))

\* a non-forced request for k has probed the page as it is now
ProbedCurrent(k) ==
    \E c \in CallIds :
        /\ calls[c].pc = "probed" /\ calls[c].key = k
        /\ calls[c].sig # NullSig
        /\ calls[c].sig \in fetchDeckPageSignature(k)

\* no scrape has just failed, no preflight has just returned null
UpstreamsAnswer ==
    /\ \A b \in BuildIds : builds[b].stage # "rejected"
    /\ \A c \in CallIds : calls[c].pc = "probed" => calls[c].sig # NullSig

\* a non-forced resolve returns a record built from the content the page has
ServedCurrent(k) ==
    \E c \in CallIds :
        /\ Done(c) /\ calls[c].key = k /\ ~calls[c].force
        /\ calls[c].outcome = "record"
        /\ recs[calls[c].result].payload.content = upstream[k]

\* every scrape and every signature probe of a build gets its answer
BuildsAnswered ==
    /\ WF_vars(\E b \in BuildIds, ok \in BOOLEAN : ScrapeDone(b, ok))
    /\ WF_vars(\E b \in BuildIds :
                 \E s \in {NullSig} \cup {PageSignature(st, v) : st \in Strategies, v \in Versions} :
                   BuildProbeDone(b, s))

\* C12: when the deck page has taken its final content, every build gets its
\* answers, the upstreams answer without failure from some time on, and
\* non-forced requests for the key keep arriving as time passes (so that
\* again and again one of them probes the page), then eventually a resolve
\* returns a record built from the final content.
C12_StalenessBounded ==
    \A k \in Keys :
        (/\ <>[](upstream[k] = MaxVersion)
         /\ BuildsAnswered
         /\ <>[]UpstreamsAnswer
         /\ []<>ProbedCurrent(k))
        => <>(upstream[k] = MaxVersion /\ ServedCurrent(k))

\* The page render of a scrape has a timeout (page.goto(url, {timeout:
\* 900000})), so a scrape returns or throws; the image lookups of the
\* Archidekt scrape are granted to answer.  The signature probes are node-fetch
\* calls without a timeout or an abort signal: nothing makes BuildProbeDone
\* or ProbeReturn happen when the host never answers.
TimeoutSpec ==
    /\ LiveSpec
    /\ WF_vars(\E b \in BuildIds, ok \in BOOLEAN : ScrapeDone(b, ok))

\* C13: every build registered in inFlight completes, so that every in-flight
\* entry is eventually removed (and the callers blocked on it answered).
C13_BuildsComplete ==
    \A k \in Keys : (inFlight[k] # None) ~> (inFlight[k] = None)

\* a record as makeCacheRecord builds it from a scraped payload of key k
CompleteRecord(r, k) ==
    /\ r.payload.key = k
    /\ r.payload.content \in Versions
    /\ r.etag = weakEtagForPayload(r.payload)
    /\ r.swrUntil - r.freshUntil = SWR_TTL_MS - FRESH_TTL_MS

\* C14: the store always holds, for a key, nothing or a complete record, and
\* what it holds changes only in the step that ends a build of the key (the
\* new record, made then) or in a renewal (the renewing call's record): the
\* steps of a build before its end leave the store as it is.
C14_StoreWrittenAtEnd ==
    /\ [](\A k \in Keys :
            deckCache[k] # None => CompleteRecord(recs[deckCache[k]], k))
    /\ [][\A k \in Keys :
             /\ deckCache'[k] = None => deckCache[k] = None
             /\ (/\ deckCache'[k] # None
                 /\ deckCache[k] = None \/ recs'[deckCache'[k]] # recs[deckCache[k]])
                => \/ /\ Cardinality(RunningBuilds(k)') = Cardinality(RunningBuilds(k)) - 1
                      /\ recs'[deckCache'[k]].freshUntil = now + FRESH_TTL_MS
                      /\ recs'[deckCache'[k]].payload.content = upstream[k]
                         \/ \E b \in BuildIds :
                               /\ builds[b].stage = "probe" /\ builds[b].key = k
                               /\ recs'[deckCache'[k]].payload.content = builds[b].content
                   \/ \E c \in CallIds :
                         /\ calls[c].pc = "probed" /\ calls[c].key = k
                         /\ calls'[c].ret = "renew"
                         /\ calls'[c].result = deckCache'[k]]_vars

\* a build has its payload and still awaits its signature, while the store
\* holds the previous record, built from other content
C14_Witness ==
    \E b \in BuildIds :
        /\ builds[b].stage = "probe"
        /\ deckCache[builds[b].key] # None
        /\ recs[deckCache[builds[b].key]].payload.content # builds[b].content

\* C15: a forced call invokes the Extractor at once, whatever the store holds;
\* when its build succeeds it returns the record that build has just made,
\* which is not the record the store held when the call started and is the
\* record the store holds for the key when the call returns.
C15_ForceRebuilds ==
    [][\A c \in CallIds :
          /\ (calls[c].pc = "idle" /\ calls'[c].pc # "idle" /\ calls'[c].force)
             => /\ calls'[c].pc = "await"
                /\ builds'[calls'[c].awaits].stage = "scrape"
                /\ builds'[calls'[c].awaits].key = calls'[c].key
                /\ \A k \in Keys :
                      calls'[c].key = k =>
                         Cardinality(RunningBuilds(k)') = Cardinality(RunningBuilds(k)) + 1
          /\ (/\ calls[c].pc = "await" /\ calls[c].force
              /\ calls'[c].pc = "done" /\ calls'[c].outcome = "record")
             => /\ calls'[c].result # None
                /\ calls'[c].result # calls'[c].cached
                /\ calls'[c].result = deckCache'[calls'[c].key]
                /\ recs'[calls'[c].result].freshUntil = now + FRESH_TTL_MS
                /\ CompleteRecord(recs'[calls'[c].result], calls'[c].key)]_vars

\* a forced call has returned its new record while the record the store held
\* when it started is still fresh
C15_Witness ==
    \E c \in CallIds :
        /\ Done(c) /\ calls[c].force /\ calls[c].outcome = "record"
        /\ calls[c].cached # None
        /\ now < recs[calls[c].cached].freshUntil

\* the store holds for k after the step what it held before
StoreKeeps(k) ==
    IF deckCache[k] = None THEN deckCache'[k] = None
    ELSE deckCache'[k] # None /\ recs'[deckCache'[k]] = recs[deckCache[k]]

\* C16: a probe that fails on both strategies yields null, no error; the step
\* in which a preflight returns null leaves the store as it is and the call
\* going on, and the call then serves its record stale (starting a refresh if
\* none is in flight) when now < swrUntil, and otherwise blocks on a rebuild,
\* without a change of the store and without an error.
C16_ProbeFailureNotFatal ==
    /\ [](\A head \in {"notok", "throw"}, get \in {"notok", "throw"}, v \in Versions :
             fetchPageSignature(head, get, v) = NullSig)
    /\ [](\A k \in Keys : NullSig \in fetchDeckPageSignature(k))
    /\ [][\A c \in CallIds :
             /\ (calls[c].pc = "probe" /\ calls'[c].pc = "probed" /\ calls'[c].sig = NullSig)
                => /\ StoreKeeps(calls[c].key)
                   /\ calls'[c].outcome = "none"
                   /\ builds' = builds /\ inFlight' = inFlight
             /\ (calls[c].pc = "probed" /\ calls[c].sig = NullSig)
                => /\ StoreKeeps(calls[c].key)
                   /\ calls'[c].outcome # "error"
                   /\ IF calls[c].cached # None /\ now < recs[calls[c].cached].swrUntil
                        THEN /\ calls'[c].pc = "done" /\ calls'[c].ret = "swr"
                             /\ calls'[c].outcome = "record"
                             /\ recs'[calls'[c].result] = recs[calls[c].cached]
                             /\ inFlight'[calls[c].key] # None
                        ELSE /\ calls'[c].pc = "await"
                             /\ calls'[c].awaits = inFlight'[calls[c].key]
                             /\ calls'[c].awaits # None]_vars

\* after a failed preflight, a call whose record is past swrUntil blocks on
\* the rebuild it has started without a signature
C16_Witness ==
    \E c \in CallIds :
        /\ calls[c].pc = "await" /\ ~calls[c].force /\ calls[c].had /\ calls[c].starter
        /\ builds[calls[c].awaits].kind = "block"
        /\ builds[calls[c].awaits].stage = "scrape"
        /\ builds[calls[c].awaits].sig = NullSig

\* ================================================================
\* resolveArchidekt with the updatedAt probe.  This server has its own
\* deckCache and inFlight; under ArchSpec the variables deckCache, inFlight,
\* builds, calls and upstream stand for them: deckCache[k] is the record
\* stored for k (by value: this server never modifies a record), builds[k]
\* the one resolveArchidekt task of key k (inFlight admits one at a time),
\* calls[c] a caller of resolveArchidekt.

\* the updatedAt the metadata endpoint reports for content version v
UpdatedAt(v) == <<"T", v>>

\* the probe threw (a non-OK answer)
Throws == <<"throws">>

\* no record (undefined) in this server's store
ArchNoRec ==
    [payload |-> [key |-> None, content |-> None], etag |-> NullSig,
     archidektUpdatedAt |-> NullSig]

\* how /api/decks/<id>/small/ answers: with updatedAt, without it, non-OK
MetaAnswers == {"ok", "bare", "notok"}

\* getArchidektUpdatedAt(deckId): json?.updatedAt || null, throws on non-OK
getArchidektUpdatedAt(answer, v) ==
    IF answer = "notok" THEN Throws
    ELSE IF answer = "ok" THEN UpdatedAt(v)
    ELSE NullSig

ArchIdleTask == [stage |-> "idle", remote |-> NullSig, via |-> "none", rec |-> ArchNoRec]

ArchIdleCall == [pc |-> "idle", key |-> None, via |-> "none", rec |-> ArchNoRec]

\* the record resolveArchidekt makes from the scraped and hydrated rows
ArchRecord(k, content, remoteUpdatedAt) ==
    [payload |-> [key |-> k, content |-> content],
     etag |-> weakEtagForPayload([key |-> k, content |-> content]),
     archidektUpdatedAt |-> remoteUpdatedAt]

\* .catch of the task: fall back to any cached copy, else rethrow
ArchCatch(k) ==
    IF deckCache[k] # ArchNoRec
      THEN [stage |-> "settled", remote |-> NullSig, via |-> "fallback", rec |-> deckCache[k]]
      ELSE [stage |-> "settled", remote |-> NullSig, via |-> "error", rec |-> ArchNoRec]

\* the reactions of a settled task are running: its .finally, its callers
ArchDraining ==
    \/ \E k \in Keys : builds[k].stage = "settled"
    \/ \E c \in CallIds : calls[c].pc = "await" /\ builds[calls[c].key].stage = "final"
    \/ \E c \in CallIds : calls[c].pc = "done"

\* a task all of whose callers have resumed is gone
ArchReap(ntasks, ncalls) ==
    [k \in Keys |->
        IF ntasks[k].stage = "final" /\ \A c \in CallIds : ~(ncalls[c].pc = "await" /\ ncalls[c].key = k)
          THEN ArchIdleTask ELSE ntasks[k]]

ArchInit ==
    /\ now = 0
    /\ ticks = 0
    /\ upstream = [k \in Keys |-> 1]
    /\ recs = [r \in RecIds |-> FreeRec]
    /\ deckCache = [k \in Keys |-> ArchNoRec]
    /\ inFlight = [k \in Keys |-> None]
    /\ builds = [k \in Keys |-> ArchIdleTask]
    /\ calls = [c \in CallIds |-> ArchIdleCall]

\* the deck's owner edits the deck
ArchUpstreamChange(k) ==
    /\ ~ArchDraining
    /\ upstream[k] < MaxVersion
    /\ upstream' = [upstream EXCEPT ![k] = @ + 1]
    /\ UNCHANGED <<now, ticks, recs, deckCache, inFlight, builds, calls>>

\* resolveArchidekt(deckId) up to its return: join the promise in flight, or
\* start the task (which awaits getArchidektUpdatedAt) and register it
ArchCallStart(c, k) ==
    /\ ~ArchDraining
    /\ calls[c].pc = "idle"
    /\ \A d \in CallIds : d < c => calls[d].pc # "idle"
    /\ calls' = [calls EXCEPT ![c] = [ArchIdleCall EXCEPT !.pc = "await", !.key = k]]
    /\ IF inFlight[k] # None
         THEN UNCHANGED <<inFlight, builds>>
         ELSE /\ inFlight' = [inFlight EXCEPT ![k] = k]
              /\ builds' = [builds EXCEPT ![k] = [ArchIdleTask EXCEPT !.stage = "meta"]]
    /\ UNCHANGED <<now, ticks, upstream, recs, deckCache>>

\* getArchidektUpdatedAt settled: the task reads the store and returns the
\* cached record as current, or starts the scrape; a throw goes to .catch
ArchMetaDone(k, answer) ==
    /\ ~ArchDraining
    /\ builds[k].stage = "meta"
    /\ LET remoteUpdatedAt == getArchidektUpdatedAt(answer, upstream[k])
           cached == deckCache[k]
       IN builds' = [builds EXCEPT ![k] =
             IF remoteUpdatedAt = Throws THEN ArchCatch(k)
             ELSE IF cached # ArchNoRec /\ cached.archidektUpdatedAt = remoteUpdatedAt
               THEN [stage |-> "settled", remote |-> remoteUpdatedAt,
                     via |-> "current", rec |-> cached]
               ELSE [stage |-> "scrape", remote |-> remoteUpdatedAt,
                     via |-> "none", rec |-> ArchNoRec]]
    /\ UNCHANGED <<now, ticks, upstream, recs, deckCache, inFlight, calls>>

\* scrapeArchidektRows and hydrateRowsToPayload settled: make the record,
\* store it, return it; a throw goes to .catch
ArchScrapeDone(k, ok) ==
    /\ ~ArchDraining
    /\ builds[k].stage = "scrape"
    /\ IF ok
         THEN LET rec == ArchRecord(k, upstream[k], builds[k].remote)
              IN /\ deckCache' = [deckCache EXCEPT ![k] = rec]
                 /\ builds' = [builds EXCEPT ![k] =
                       [stage |-> "settled", remote |-> builds[k].remote,
                        via |-> "scraped", rec |-> rec]]
         ELSE /\ builds' = [builds EXCEPT ![k] = ArchCatch(k)]
              /\ UNCHANGED deckCache
    /\ UNCHANGED <<now, ticks, upstream, recs, inFlight, calls>>

\* .finally(() => inFlight.delete(key))
ArchFinallyRun(k) ==
    /\ builds[k].stage = "settled"
    /\ inFlight' = [inFlight EXCEPT ![k] = None]
    /\ builds' = ArchReap([builds EXCEPT ![k].stage = "final"], calls)
    /\ UNCHANGED <<now, ticks, upstream, recs, deckCache, calls>>

\* a caller resumes with what the promise it got settled to
ArchAwaitDone(c) ==
    /\ calls[c].pc = "await"
    /\ builds[calls[c].key].stage = "final"
    /\ calls' = [calls EXCEPT ![c] = [@ EXCEPT !.pc = "done",
                                                !.via = builds[calls[c].key].via,
                                                !.rec = builds[calls[c].key].rec]]
    /\ builds' = ArchReap(builds, calls')
    /\ UNCHANGED <<now, ticks, upstream, recs, deckCache, inFlight>>

\* the route has answered; the requests behind move up
ArchRespond(c) ==
    /\ calls[c].pc = "done"
    /\ calls' = [d \in CallIds |->
                   IF d < c THEN calls[d]
                   ELSE IF d < MaxCalls THEN calls[d + 1]
                   ELSE ArchIdleCall]
    /\ UNCHANGED <<now, ticks, upstream, recs, deckCache, inFlight, builds>>

ArchNext ==
    \/ \E k \in OneKey : ArchUpstreamChange(k)
    \/ \E c \in CallIds, k \in OneKey : ArchCallStart(c, k)
    \/ \E k \in OneKey, answer \in MetaAnswers : ArchMetaDone(k, answer)
    \/ \E k \in OneKey, ok \in BOOLEAN : ArchScrapeDone(k, ok)
    \/ \E k \in OneKey : ArchFinallyRun(k)
    \/ \E c \in CallIds : ArchAwaitDone(c)
    \/ \E c \in CallIds : ArchRespond(c)

ArchSpec == ArchInit /\ [][ArchNext]_vars

\* C17: whenever resolveArchidekt returns the cached record as current, the
\* updatedAt probe had yielded a value: a null probe is never taken as
\* "unchanged", whatever the record's archidektUpdatedAt is.
C17_NullUpdatedAtIsUnknown ==
    \A k \in Keys :
        (builds[k].stage = "settled" /\ builds[k].via = "current")
            => builds[k].remote # NullSig

\* ================================================================
\* The TTL/SWR server (src/server.js): getDeckCached without a preflight and
\* with a stale fallback around its await; buildAndCache without a signature.
\* The helpers (makeCacheRecord, isFresh, withinSWR), the in-flight map and the
\* route are the same; time passes by Elapse.

\* getDeckCached(provider, deckId) up to its return or its await
SrvCallStart(c, k) ==
    /\ TaskMayRun
    /\ calls[c].pc = "idle"
    /\ \A d \in CallIds : d < c => calls[d].pc # "idle"
    /\ LET cached == deckCache[k]
           me == [IdleCall EXCEPT !.key = k, !.had = cached # None, !.cached = cached]
           start == MustStartBuild(k)
           b == IF start THEN FreshBuild ELSE inFlight[k]
           kind == IF withinSWR(cached, now) THEN "swr" ELSE "block"
       IN IF isFresh(cached, now)
            THEN Commit(recs, deckCache, inFlight, builds,
                        [calls EXCEPT ![c] =
                            [me EXCEPT !.pc = "done", !.ret = "fresh",
                                       !.outcome = "record", !.result = cached]])
            ELSE /\ start => CanBuild
                 /\ Commit(recs, deckCache,
                           IF start THEN [inFlight EXCEPT ![k] = b] ELSE inFlight,
                           IF start THEN [builds EXCEPT ![b] = NewBuild(k, kind, NullSig, FALSE)]
                                    ELSE builds,
                           [calls EXCEPT ![c] =
                               IF kind = "swr"
                                 THEN [me EXCEPT !.pc = "done", !.ret = "swr", !.starter = start,
                                                 !.outcome = "record", !.result = cached]
                                 ELSE [me EXCEPT !.pc = "await", !.awaits = b,
                                                 !.starter = start]])
    /\ UNCHANGED <<now, ticks, upstream>>

\* buildAndCache: the scrape settled; makeCacheRecord(fresh), deckCache.set
SrvScrapeDone(b, ok) ==
    /\ TaskMayRun
    /\ builds[b].stage = "scrape"
    /\ IF ok
         THEN InstallRecord(b, upstream[builds[b].key], NullSig)
         ELSE Commit(recs, deckCache, inFlight,
                     [builds EXCEPT ![b].stage = "rejected"], calls)
    /\ UNCHANGED <<now, ticks, upstream>>

\* try { const rec = await inFlight.get(key); return rec }
\* catch (e) { if (cached) return cached; throw e }
SrvAwaitDone(c) ==
    /\ Running
    /\ calls[c].pc = "await"
    /\ PromiseSettled(calls[c].awaits)
    /\ LET b == calls[c].awaits
           caught == PromiseOutcome(b) = "error" /\ calls[c].cached # None
       IN Commit(recs, deckCache, inFlight, builds,
                 [calls EXCEPT ![c] =
                     [@ EXCEPT !.pc = "done",
                               !.ret = IF builds[b].stage = "rejected"
                                         THEN "blockfail" ELSE "block",
                               !.outcome = IF caught THEN "record" ELSE PromiseOutcome(b),
                               !.result = IF caught THEN calls[c].cached ELSE builds[b].rec]])
    /\ UNCHANGED <<now, ticks, upstream>>

SrvNext ==
    \/ \E d \in {FRESH_TTL_MS, SWR_TTL_MS} : Elapse(d)
    \/ \E k \in OneKey : UpstreamChange(k)
    \/ \E c \in CallIds, k \in OneKey : SrvCallStart(c, k)
    \/ \E b \in BuildIds, ok \in BOOLEAN : SrvScrapeDone(b, ok)
    \/ \E b \in BuildIds : FinallyRun(b)
    \/ \E c \in CallIds : SrvAwaitDone(c)
    \/ \E c \in CallIds : Respond(c)

SrvSpec == Init /\ [][SrvNext]_vars

\* C18: a blocking caller whose awaited build failed returns the stale record
\* it read at its start when there was one, and raises the build error when
\* there was none, whoever started the build it awaited.
C18_BlockingFallback ==
    \A c \in CallIds :
        (Done(c) /\ calls[c].ret = "blockfail")
            => IF calls[c].had
                 THEN calls[c].outcome = "record" /\ calls[c].result = calls[c].cached
                 ELSE calls[c].outcome = "error"

\* the If-None-Match headers of a request: none, or the tag of some payload
ClientETags ==
    {NullSig} \cup {weakEtagForPayload([key |-> k, content |-> v]) : k \in Keys, v \in Versions}

\* C19: for a request whose getDeckCached returned a record, the answer is 304
\* without a body exactly when If-None-Match equals that record's etag, and
\* otherwise 200 with that record's payload; both carry that record's ETag
\* and the Cache-Control header.
C19_ConditionalResponse ==
    \A c \in CallIds :
        (Done(c) /\ calls[c].outcome = "record") =>
            \A clientETag \in ClientETags :
                LET resp == RouteResponse(c, clientETag)
                    rec == recs[calls[c].result]
                IN /\ resp.status = 304 <=> clientETag = rec.etag
                   /\ resp.status = 304 => resp.body = "none"
                   /\ resp.status # 304 => resp.status = 200 /\ resp.body = rec.payload
                   /\ resp.etag = rec.etag
                   /\ resp.cacheControl = CacheControl

\* a request is served a stale record while the store already holds a record
\* with another etag
C19_Witness ==
    \E c \in CallIds :
        /\ Done(c) /\ calls[c].outcome = "record"
        /\ deckCache[calls[c].key] # None
        /\ recs[deckCache[calls[c].key]].etag # recs[calls[c].result].etag
        /\ RouteResponse(c, recs[calls[c].result].etag).status = 304

\* C20: a url that is missing, names no supported provider or has no
\* extractable deck identifier does not parse, and the request is answered 400
\* in the run in which it arrives: no probe, no build, and the store, the
\* records and the in-flight map as they were.
C20_BadRequest ==
    /\ [](\A url \in Urls :
            (\/ ~url.present
             \/ url.host \notin {"archidekt", "moxfield"}
             \/ url.id = "none"
             \/ url.host = "archidekt" /\ url.id # "digits")
            => ParseDeckUrl(url) # "ok")
    /\ [][\A c \in CallIds :
             (calls[c].pc = "idle" /\ calls'[c].outcome = "badrequest")
             => /\ calls'[c].pc = "done"
                /\ RouteStatus(c, NullSig)' = 400
                /\ deckCache' = deckCache /\ recs' = recs
                /\ inFlight' = inFlight /\ builds' = builds
                /\ \A d \in CallIds \ {c} : calls'[d] = calls[d]]_vars

\* a request is answered 400 while a build for a key is in flight
C20_Witness ==
    \E c \in CallIds :
        /\ Done(c) /\ calls[c].outcome = "badrequest"
        /\ \E k \in Keys : inFlight[k] # None /\ deckCache[k] # None

\* ================================================================
\* scrapeArchidekt: the hydration of the extracted rows through
\* fetchScryfallCard and scryCache.  Under HydrateSpec the variables stand for
\* the objects of one scrape: upstream the rows page.evaluate returned, recs
\* the images array, deckCache the Scryfall item cache, calls[1] the
\* fetchScryfallCard call of the loop, builds the position of the loop with
\* what happened to each row and, at the end, the payload returned.
rows == upstream

images == recs

scryCache == deckCache

CardIds == 1..NumCards

Categories == {"Artifacts", "Lands"}

\* a row as page.evaluate pushes it; card stands for name, quantity, foil,
\* setCode and collectorNumber, the lookup identity being setCode/collectorNumber
Rows == [card : CardIds, category : Categories]

RowLists == UNION {[1..n -> Rows] : n \in 1..MaxRows}

\* Scryfall's JSON for a card: image_uris.normal at the top, two card_faces
\* with their own image_uris, or no image at all
Kinds == {"plain", "twofaced", "noimage"}

NoData == [card |-> None, kind |-> "none"]

\* scryCache.get(key) of an absent or expired entry
NoEntry == [data |-> NoData, etag |-> NullSig, lastModified |-> NullSig]

\* what the fetch of line 182 settles to: a network error, a 304, a non-OK
\* status, an OK answer whose body is no JSON, or an OK answer with the card's
\* JSON and the etag and last-modified headers the host chose to send
ScryAnswers(card) ==
    [status : {"throw", "304", "notok", "garbled"}, data : {NoData},
     etag : {NullSig}, lastModified : {NullSig}]
    \cup UNION {[status : {"ok"}, data : {[card |-> card, kind |-> kd]},
                 etag : {NullSig, <<"E", card, kd>>},
                 lastModified : {NullSig, <<"L", card, kd>>}] : kd \in Kinds}

\* lines 178-180: the conditional headers of the request (NullSig: not sent)
ScryHeaders(cached) ==
    [ifNoneMatch |-> cached.etag, ifModifiedSince |-> cached.lastModified]

\* the answer makes fetchScryfallCard throw: line 182 (network), line 190
\* (non-OK and not a 304 with cached data), line 193 (resp.json())
ScryRaises(cached, answer) ==
    \/ answer.status \in {"throw", "notok", "garbled"}
    \/ answer.status = "304" /\ cached.data = NoData

\* a fetchScryfallCard that answers a failed lookup from the cache
ScryReturnStaleOnError(cached, answer) ==
    IF answer.status = "ok" THEN [raised |-> FALSE, data |-> answer.data]
    ELSE IF cached.data # NoData THEN [raised |-> FALSE, data |-> cached.data]
    ELSE [raised |-> TRUE, data |-> NoData]

\* what fetchScryfallCard returns or that it throws
ScryReturn(cached, answer) ==
    IF ScryRaises(cached, answer) THEN [raised |-> TRUE, data |-> NoData]
    ELSE IF answer.status = "304" THEN [raised |-> FALSE, data |-> cached.data]
    ELSE [raised |-> FALSE, data |-> answer.data]

\* a fetchScryfallCard that stores the headers of every answer it accepts,
\* those of a 304 too
ScryStoreOn304(cache, card, cached, answer) ==
    IF ScryRaises(cached, answer) THEN cache
    ELSE IF answer.status = "304"
      THEN [cache EXCEPT ![card] = [data |-> cached.data, etag |-> answer.etag,
                                    lastModified |-> answer.lastModified]]
    ELSE [cache EXCEPT ![card] = [data |-> answer.data, etag |-> answer.etag,
                                  lastModified |-> answer.lastModified]]

\* line 197: scryCache.set(key, { data, etag, lastModified }) on a full answer
ScryStore(cache, card, cached, answer) ==
    IF answer.status = "ok"
      THEN [cache EXCEPT ![card] = [data |-> answer.data, etag |-> answer.etag,
                                    lastModified |-> answer.lastModified]]
      ELSE cache

\* lines 265-274: imgFront and imgBack of the card's JSON
ImgFront(data) == IF data.kind \in {"plain", "twofaced"} THEN <<"front", data.card>> ELSE NullSig

ImgBack(data) == IF data.kind = "twofaced" THEN <<"back", data.card>> ELSE NullSig

\* lines 277-281: { ...card, img: imgFront, backImg: imgBack || null }
ImageOf(row, data) ==
    [card |-> row.card, category |-> row.category,
     img |-> ImgFront(data), backImg |-> ImgBack(data)]

\* Array.from(new Set(list)): the distinct elements in first-seen order
RECURSIVE ArrayFromSet(_)
ArrayFromSet(list) ==
    IF list = <<>> THEN <<>>
    ELSE LET front == ArrayFromSet(SubSeq(list, 1, Len(list) - 1))
             last == list[Len(list)]
         IN IF \E i \in 1..Len(front) : front[i] = last THEN front ELSE Append(front, last)

\* line 290: the categories of the images
categoryOrder(imgs) == ArrayFromSet([i \in 1..Len(imgs) |-> imgs[i].category])

\* line 256: the fingerprint of the rows
deckHash(rws) == <<"sha1", rws>>

\* line 291: { images, categoryOrder, deckHash, provider: 'archidekt', deckId }
ScrapedPayload(imgs, rws) ==
    [key |-> 1,
     content |-> [images |-> imgs, categoryOrder |-> categoryOrder(imgs)],
     deckHash |-> deckHash(rws)]

NoCall ==
    [pc |-> "none", card |-> None, cached |-> NoEntry, headers |-> ScryHeaders(NoEntry),
     answer |-> [status |-> "none", data |-> NoData, etag |-> NullSig,
                 lastModified |-> NullSig],
     ret |-> [raised |-> FALSE, data |-> NoData]]

NoPayload == [key |-> None, content |-> [images |-> <<>>, categoryOrder |-> <<>>], deckHash |-> NullSig]

HydrateInit ==
    /\ now = 0
    /\ ticks = 0
    /\ inFlight = [k \in Keys |-> None]
    /\ rows \in RowLists
    /\ images = <<>>
    /\ scryCache = [cd \in CardIds |-> NoEntry]
    /\ builds = [stage |-> "loop", pos |-> 0, outcomes |-> <<>>, payload |-> NoPayload]
    /\ calls = [c \in {1} |-> NoCall]

\* an entry of scryCache reaches its ttl
ScryExpire(cd) ==
    /\ scryCache[cd] # NoEntry
    /\ scryCache' = [scryCache EXCEPT ![cd] = NoEntry]
    /\ UNCHANGED <<now, ticks, rows, images, inFlight, builds, calls>>

\* the loop takes its next row: fetchScryfallCard up to its await
LookupStart ==
    /\ builds.stage = "loop"
    /\ calls[1].pc # "fetch"
    /\ builds.pos < Len(rows)
    /\ LET cd == rows[builds.pos + 1].card
           cached == scryCache[cd]
       IN calls' = [calls EXCEPT ![1] =
              [NoCall EXCEPT !.pc = "fetch", !.card = cd, !.cached = cached,
                             !.headers = ScryHeaders(cached)]]
    /\ UNCHANGED <<now, ticks, rows, images, scryCache, inFlight, builds>>

\* the rest of the loop body without its try/catch: a failed lookup ends the
\* scrape with the error
LookupAnswerUncaught(answer) ==
    /\ calls[1].pc = "fetch"
    /\ answer \in ScryAnswers(calls[1].card)
    /\ LET cd == calls[1].card
           cached == calls[1].cached
           ret == ScryReturn(cached, answer)
           row == rows[builds.pos + 1]
           pushed == ~ret.raised /\ ImgFront(ret.data) # NullSig
       IN /\ scryCache' = ScryStore(scryCache, cd, cached, answer)
          /\ calls' = [calls EXCEPT ![1] =
                 [@ EXCEPT !.pc = "settled", !.answer = answer, !.ret = ret]]
          /\ images' = IF pushed THEN Append(images, ImageOf(row, ret.data)) ELSE images
          /\ builds' = [builds EXCEPT
                 !.stage = IF ret.raised THEN "raised" ELSE @,
                 !.pos = @ + 1,
                 !.outcomes = Append(@, IF pushed THEN "image" ELSE "omitted")]
    /\ UNCHANGED <<now, ticks, rows, inFlight>>

\* the fetch settles: the rest of fetchScryfallCard and of the loop body
\* (lines 184-198 and 265-287)
LookupAnswer(answer) ==
    /\ calls[1].pc = "fetch"
    /\ answer \in ScryAnswers(calls[1].card)
    /\ LET cd == calls[1].card
           cached == calls[1].cached
           ret == ScryReturn(cached, answer)
           row == rows[builds.pos + 1]
           pushed == ~ret.raised /\ ImgFront(ret.data) # NullSig
       IN /\ scryCache' = ScryStore(scryCache, cd, cached, answer)
          /\ calls' = [calls EXCEPT ![1] =
                 [@ EXCEPT !.pc = "settled", !.answer = answer, !.ret = ret]]
          /\ images' = IF pushed THEN Append(images, ImageOf(row, ret.data)) ELSE images
          /\ builds' = [builds EXCEPT
                 !.pos = @ + 1,
                 !.outcomes = Append(@, IF pushed THEN "image" ELSE "omitted")]
    /\ UNCHANGED <<now, ticks, rows, inFlight>>

\* lines 290-291: the loop is over, the payload is returned
ScrapeReturn ==
    /\ builds.stage = "loop"
    /\ calls[1].pc # "fetch"
    /\ builds.pos = Len(rows)
    /\ builds' = [builds EXCEPT !.stage = "returned",
                                 !.payload = ScrapedPayload(images, rows)]
    /\ UNCHANGED <<now, ticks, rows, images, scryCache, inFlight, calls>>

HydrateNext ==
    \/ \E cd \in CardIds : ScryExpire(cd)
    \/ LookupStart
    \/ \E cd \in CardIds : \E answer \in ScryAnswers(cd) : LookupAnswer(answer)
    \/ ScrapeReturn

HydrateSpec == HydrateInit /\ [][HydrateNext]_vars

\* the rows whose lookup gave a front image, in the order of the rows
RECURSIVE Hydrated(_, _)
Hydrated(rws, outcomes) ==
    IF rws = <<>> THEN <<>>
    ELSE LET n == Len(rws)
             front == Hydrated(SubSeq(rws, 1, n - 1), SubSeq(outcomes, 1, n - 1))
         IN IF outcomes[n] = "image" THEN Append(front, rws[n]) ELSE front

\* C21: whichever lookups fail or give no front image, the scrape goes through
\* all the rows and returns; the images of its payload are the other rows, in
\* the order of the rows, each with its image URL.
C21_PartialTolerance ==
    /\ builds.stage \in {"loop", "returned"}
    /\ Len(builds.outcomes) = builds.pos
    /\ LET kept == Hydrated(SubSeq(rows, 1, builds.pos), builds.outcomes)
       IN /\ Len(images) = Len(kept)
          /\ \A i \in 1..Len(kept) :
                /\ images[i].card = kept[i].card
                /\ images[i].category = kept[i].category
                /\ images[i].img = <<"front", kept[i].card>>
    /\ builds.stage = "returned" => builds.payload.content.images = images

\* three rows, the lookup of the second failed, the first and third are in
\* the payload
C21_Witness ==
    /\ builds.stage = "returned"
    /\ Len(rows) = 3
    /\ builds.outcomes = <<"image", "omitted", "image">>
    /\ calls[1].ret.raised = FALSE
    /\ Len(builds.payload.content.images) = 2

\* C22: the categoryOrder of the payload is the sequence of the distinct
\* categories of the extracted rows in first-seen order.
C22_CategoryOrderFromRows ==
    builds.stage = "returned" =>
        builds.payload.content.categoryOrder
            = ArrayFromSet([i \in 1..Len(rows) |-> rows[i].category])

\* C25: a call that finds an entry sends the entry's etag as If-None-Match and
\* its lastModified as If-Modified-Since; when the answer is a 304 it returns
\* the data of that entry, and the cache is left as it is.
C25_ConditionalLookup ==
    [][/\ (calls[1].pc # "fetch" /\ calls'[1].pc = "fetch")
          => LET entry == scryCache[calls'[1].card]
             IN /\ calls'[1].cached = entry
                /\ entry.etag # NullSig => calls'[1].headers.ifNoneMatch = entry.etag
                /\ entry.lastModified # NullSig =>
                      calls'[1].headers.ifModifiedSince = entry.lastModified
                /\ entry = NoEntry => calls'[1].headers = ScryHeaders(NoEntry)
       /\ (/\ calls[1].pc = "fetch" /\ calls'[1].pc = "settled"
           /\ calls'[1].answer.status = "304"
           /\ calls[1].cached # NoEntry)
          => /\ ~calls'[1].ret.raised
             /\ calls'[1].ret.data = calls[1].cached.data
             /\ scryCache' = scryCache]_vars

\* a 304 to a request that carried both validators, answered from the entry
C25_Witness ==
    /\ calls[1].pc = "settled"
    /\ calls[1].answer.status = "304"
    /\ calls[1].headers.ifNoneMatch # NullSig
    /\ calls[1].headers.ifModifiedSince # NullSig
    /\ calls[1].ret.data = scryCache[calls[1].card].data
    /\ calls[1].ret.data.kind = "twofaced"

\* C26: on an OK answer with the card's JSON the entry of the card becomes the
\* new data with the new validator, the other entries stay, and the new data
\* is returned; on a network error, on a non-OK status (a 304 without cached
\* data included) and on an unreadable body the call throws, returns nothing,
\* and the cache is left as it is.
C26_StoreOrRaise ==
    [][(calls[1].pc = "fetch" /\ calls'[1].pc = "settled")
         => LET cd == calls[1].card
                answer == calls'[1].answer
            IN IF answer.status = "ok"
                 THEN /\ ~calls'[1].ret.raised
                      /\ calls'[1].ret.data = answer.data
                      /\ scryCache'[cd] = [data |-> answer.data, etag |-> answer.etag,
                                           lastModified |-> answer.lastModified]
                      /\ \A other \in CardIds \ {cd} : scryCache'[other] = scryCache[other]
                 ELSE (answer.status # "304" \/ calls[1].cached = NoEntry)
                      => /\ calls'[1].ret.raised
                         /\ calls'[1].ret.data = NoData
                         /\ scryCache' = scryCache]_vars

\* a lookup failed while the cache held data for the card, and the entry is
\* still there
C26_Witness ==
    /\ calls[1].pc = "settled"
    /\ calls[1].ret.raised
    /\ calls[1].answer.status = "notok"
    /\ calls[1].cached # NoEntry
    /\ scryCache[calls[1].card] = calls[1].cached

\* ================================================================
\* The fingerprint of two builds.  Under EtagSpec builds[b] is the images
\* array the scrape of build b ended with and recs[b] the record
\* buildAndCache makes of its payload (NoRecord until then).
TwoBuilds == {1, 2}

\* an entry of an images array with its front image
Images == {ImageOf(row, [card |-> row.card, kind |-> "plain"]) : row \in Rows}

ImageLists == UNION {[1..n -> Images] : n \in 0..MaxImages}

\* the payload scrapeArchidekt returns for an images array
PayloadOf(imgs) ==
    [key |-> 1, content |-> [images |-> imgs, categoryOrder |-> categoryOrder(imgs)]]

\* no record made yet
NoRecord ==
    [FreeRec EXCEPT !.payload = [key |-> None,
                                 content |-> [images |-> <<>>, categoryOrder |-> <<>>]]]

EtagInit ==
    /\ now = 0
    /\ ticks = 0
    /\ upstream = [k \in Keys |-> 1]
    /\ deckCache = [k \in Keys |-> None]
    /\ inFlight = [k \in Keys |-> None]
    /\ calls = [c \in CallIds |-> IdleCall]
    /\ builds \in [TwoBuilds -> ImageLists]
    /\ recs = [b \in TwoBuilds |-> NoRecord]

\* buildAndCache of build b: const rec = makeCacheRecord(fresh, pageSig)
MakeRecord(b, pageSig) ==
    /\ recs[b] = NoRecord
    /\ recs' = [recs EXCEPT ![b] = makeCacheRecord(PayloadOf(builds[b]), pageSig, now)]
    /\ UNCHANGED <<now, ticks, upstream, deckCache, inFlight, builds, calls>>

EtagNext ==
    \E b \in TwoBuilds : \E pageSig \in {NullSig, PageSignature("H", 1)} : MakeRecord(b, pageSig)

EtagSpec == EtagInit /\ [][EtagNext]_vars

\* the two images arrays hold the same cards, each as often in one as in the
\* other
SameCards(a, b) ==
    /\ Len(a) = Len(b)
    /\ \A img \in Images :
          Cardinality({i \in 1..Len(a) : a[i] = img})
              = Cardinality({i \in 1..Len(b) : b[i] = img})

\* C23: two builds whose images arrays hold the same cards, in whatever
\* order, and whose categoryOrder is the same make records with the same etag.
C23_FingerprintOrderFree ==
    (/\ recs[1] # NoRecord /\ recs[2] # NoRecord
     /\ SameCards(builds[1], builds[2])
     /\ recs[1].payload.content.categoryOrder = recs[2].payload.content.categoryOrder)
        => recs[1].etag = recs[2].etag

\* ================================================================
\* the store and the resolves again (Spec)

\* the records something refers to
LiveRecs == {r \in RecIds : recs[r] # FreeRec}

\* C24: every record carries the etag of its own payload's images and
\* categoryOrder; records made of the same images and categoryOrder have the
\* same etag whatever their deckHash, pageSig and timestamps are; and a
\* renewal returns the record with the payload and the etag it had.
C24_EtagOfOwnPayload ==
    /\ [](\A r \in LiveRecs : recs[r].etag = weakEtagForPayload(recs[r].payload))
    /\ [](\A r, q \in LiveRecs :
            recs[r].payload.content = recs[q].payload.content => recs[r].etag = recs[q].etag)
    /\ [](\A imgs \in [1..1 -> Images] :
            \A rows1, rows2 \in [1..1 -> Rows] :
               makeCacheRecord(ScrapedPayload(imgs, rows1), NullSig, 0).etag
                   = makeCacheRecord(ScrapedPayload(imgs, rows2),
                                     PageSignature("H", 1), now).etag)
    /\ [][\A c \in CallIds :
             (calls[c].pc = "probed" /\ calls'[c].pc = "done" /\ calls'[c].ret = "renew")
             => /\ recs'[calls'[c].result].payload = recs[calls[c].cached].payload
                /\ recs'[calls'[c].result].etag = recs[calls[c].cached].etag
                /\ recs'[calls'[c].result].etag
                      = weakEtagForPayload(recs'[calls'[c].result].payload)]_vars

\* a request holds a stale record while the store holds a later build of the
\* same content: the same etag under different freshness windows
C24_Witness ==
    \E c \in CallIds :
        /\ Done(c) /\ calls[c].outcome = "record"
        /\ deckCache[calls[c].key] # None
        /\ deckCache[calls[c].key] # calls[c].result
        /\ recs[deckCache[calls[c].key]].etag = recs[calls[c].result].etag
        /\ recs[deckCache[calls[c].key]].freshUntil # recs[calls[c].result].freshUntil
        /\ recs[deckCache[calls[c].key]].pageSig # recs[calls[c].result].pageSig

\* ================================================================
\* fetchPageSignature against the deck pages.  Under ProbeSpec calls is the
\* sequence of the probes made so far: the key probed, the content the page
\* had then, the signature returned.

\* a host whose GET answers too
ProbeGetAnswers == GetAnswers \cup {"ok"}

ProbeInit ==
    /\ now = 0
    /\ ticks = 0
    /\ upstream = [k \in Keys |-> 1]
    /\ recs = [r \in RecIds |-> FreeRec]
    /\ deckCache = [k \in Keys |-> None]
    /\ inFlight = [k \in Keys |-> None]
    /\ builds = [b \in BuildIds |-> FreeBuild]
    /\ calls = <<>>

\* the deck's owner edits the deck
ProbePageChange(k) ==
    /\ upstream[k] < MaxVersion
    /\ upstream' = [upstream EXCEPT ![k] = @ + 1]
    /\ UNCHANGED <<now, ticks, recs, deckCache, inFlight, builds, calls>>

\* fetchDeckPageSignature(provider, deckId) from its call to its return
Probe(k, head, get) ==
    /\ Len(calls) < MaxProbes
    /\ calls' = Append(calls, [key |-> k, content |-> upstream[k],
                               sig |-> fetchPageSignature(head, get, upstream[k])])
    /\ UNCHANGED <<now, ticks, upstream, recs, deckCache, inFlight, builds>>

ProbeNext ==
    \/ \E k \in OneKey : ProbePageChange(k)
    \/ \E k \in OneKey, head \in HeadAnswers, get \in ProbeGetAnswers : Probe(k, head, get)

ProbeSpec == ProbeInit /\ [][ProbeNext]_vars

\* C27: of two probes of a page that both returned a signature, the
\* signatures are equal exactly when the page had the same content, whichever
\* strategy (HEAD headers, GET body hash) each probe ended with.
C27_SignatureIffChanged ==
    \A i, j \in 1..Len(calls) :
        (/\ calls[i].key = calls[j].key
         /\ calls[i].sig # NullSig /\ calls[j].sig # NullSig)
        => (calls[i].sig = calls[j].sig <=> calls[i].content = calls[j].content)

\* ================================================================
\* requests for every key at once (no bad requests, no edits of the decks)

KeysNext ==
    \/ \E d \in {FRESH_TTL_MS, SWR_TTL_MS} : Tick(d)
    \/ \E c \in CallIds, k \in Keys, force \in BOOLEAN : CallStart(c, k, force)
    \/ \E c \in CallIds :
         \E sig \in {NullSig} \cup {PageSignature(st, v) : st \in Strategies, v \in Versions} :
           ProbeReturn(c, sig)
    \/ \E c \in CallIds : Decide(c)
    \/ \E c \in CallIds : AwaitDone(c)
    \/ \E c \in CallIds : Respond(c)
    \/ \E b \in BuildIds, ok \in BOOLEAN : ScrapeDone(b, ok)
    \/ \E b \in BuildIds :
         \E s \in {NullSig} \cup {PageSignature(st, v) : st \in Strategies, v \in Versions} :
           BuildProbeDone(b, s)
    \/ \E b \in BuildIds : FinallyRun(b)

KeysSpec == Init /\ [][KeysNext]_vars

\* the entry of the in-flight map for k is after the step what it was
InFlightKeeps(k) ==
    IF inFlight[k] = None THEN inFlight'[k] = None
    ELSE /\ inFlight'[k] # None
         /\ builds'[inFlight'[k]].kind = builds[inFlight[k]].kind
         /\ builds'[inFlight'[k]].sig = builds[inFlight[k]].sig

\* the step is one of a resolve for k or of a build of k
StepOfKey(k) ==
    \/ \E c \in CallIds : calls[c].key = k /\ calls[c].pc \in {"probed", "await"}
                          /\ calls'[c].pc # calls[c].pc
    \/ \E c \in CallIds : calls[c].pc = "idle" /\ calls'[c].key = k
    \/ \E b \in BuildIds : builds[b].key = k /\ builds[b].stage \in {"scrape", "probe"}
                           /\ Cardinality(RunningBuilds(k)') < Cardinality(RunningBuilds(k))
    \/ \E b \in BuildIds : builds[b].key = k /\ BuildSettled(b) /\ ~builds[b].finalized
                           /\ builds[b].kind \in {"swr", "block"}
                           /\ inFlight'[k] = None

\* C28: a resolve awaits a build of its own key only, and the in-flight entry
\* of a key is a build of that key; a resolve that rebuilds while no build of
\* its key is in flight starts one, whatever is in flight for the others; and
\* the record and the in-flight entry of a key change only in steps of a
\* resolve or a build of that key.
C28_KeysIndependent ==
    /\ [](/\ \A c \in CallIds :
               calls[c].pc = "await" => builds[calls[c].awaits].key = calls[c].key
          /\ \A k \in Keys : inFlight[k] # None => builds[inFlight[k]].key = k)
    /\ [][/\ \A c \in CallIds :
               (ServesOrBlocks(c) /\ inFlight[calls[c].key] = None)
               => /\ inFlight'[calls[c].key] # None
                  /\ builds'[inFlight'[calls[c].key]].stage = "scrape"
                  /\ builds'[inFlight'[calls[c].key]].key = calls[c].key
                  /\ \A k \in Keys \ {calls[c].key} : InFlightKeeps(k)
          /\ \A k \in Keys :
               (~StoreKeeps(k) \/ ~InFlightKeeps(k)) => StepOfKey(k)
          /\ \A k \in Keys :
               (\E j \in Keys \ {k} : StepOfKey(j)) /\ ~StepOfKey(k)
                  => StoreKeeps(k) /\ InFlightKeeps(k)]_vars

\* builds of both keys are in flight at once, each awaited by its own caller
C28_Witness ==
    \E c, d \in CallIds :
        /\ calls[c].pc = "await" /\ calls[d].pc = "await"
        /\ calls[c].key # calls[d].key
        /\ inFlight[calls[c].key] = calls[c].awaits
        /\ inFlight[calls[d].key] = calls[d].awaits
        /\ calls[c].awaits # calls[d].awaits
        /\ builds[calls[c].awaits].stage = "scrape"
        /\ builds[calls[d].awaits].stage = "probe"

\* the keys the store holds a record for
StoredKeys == {k \in Keys : deckCache[k] # None}

\* C29: the store never holds more than MAX_DECKS records, and below that
\* capacity no step takes a key's record away: after a fresh hit, a renewal,
\* a rebuild that succeeded or failed, forced or not, the store holds a
\* complete record for every key it held one for.
C29_NeverDeleted ==
    /\ [](Cardinality(StoredKeys) <= MAX_DECKS)
    /\ [][\A k \in Keys :
             (deckCache[k] # None /\ Cardinality(StoredKeys) < MAX_DECKS)
             => /\ deckCache'[k] # None
                /\ CompleteRecord(recs'[deckCache'[k]], k)]_vars

\* a blocking rebuild has failed, and the store still holds the record, past
\* its SWR window and built from content the page no longer has
C29_Witness ==
    \E c \in CallIds :
        /\ Done(c) /\ calls[c].ret = "block" /\ calls[c].outcome = "error"
        /\ deckCache[calls[c].key] # None
        /\ now >= recs[deckCache[calls[c].key]].swrUntil
        /\ recs[deckCache[calls[c].key]].payload.content # upstream[calls[c].key]

\* C30: every record the store holds, and every record a request holds, has
\* freshUntil <= swrUntil.
C30_FreshWithinSwr ==
    /\ \A k \in StoredKeys : recs[deckCache[k]].freshUntil <= recs[deckCache[k]].swrUntil
    /\ \A r \in LiveRecs : recs[r].freshUntil <= recs[r].swrUntil

\* the store holds a record that was renewed when its SWR window was over
C30_Witness ==
    \E c \in CallIds :
        /\ Done(c) /\ calls[c].ret = "renew"
        /\ deckCache[calls[c].key] = calls[c].result
        /\ now >= SWR_TTL_MS
        /\ recs[calls[c].result].swrUntil = now + SWR_TTL_MS

\* C31: the content of the record the store holds for a key never goes back
\* to an earlier version of the deck: no write (the record of a build, the
\* renewed record of a resolve) replaces a record extracted from a later
\* version by one extracted from an earlier version.
C31_StoreNeverGoesBack ==
    [][\A k \in Keys :
          (deckCache[k] # None /\ deckCache'[k] # None)
          => recs'[deckCache'[k]].payload.content >= recs[deckCache[k]].payload.content]_vars

\* C32: the pageSig of a record is null or a signature of the version of the
\* deck its payload was extracted from.
C32_SignatureOfOwnContent ==
    \A r \in LiveRecs :
        recs[r].pageSig # NullSig =>
            \E st \in Strategies : recs[r].pageSig = PageSignature(st, recs[r].payload.content)

\* C33: a getDeckCached call that has completed without raising returns a
\* record, with its payload and its etag.
C33_NeverUndefined ==
    \A c \in CallIds :
        (Done(c) /\ calls[c].outcome \notin {"error", "badrequest"})
        => /\ calls[c].outcome = "record"
           /\ calls[c].result # None
           /\ CompleteRecord(recs[calls[c].result], calls[c].key)

\* C34: the step in which a build fails leaves the store, every record and the
\* in-flight map as they were and completes no request; a request that
\* returns without awaiting a build (a fresh hit, a renewal, a stale record
\* served while a refresh runs) returns a record, and only a request that
\* awaited a forced or a blocking build raises.
C34_FailedBuildWritesNothing ==
    /\ [][\A b \in BuildIds :
             (builds[b].stage = "scrape" /\ builds'[b].stage = "rejected")
             => /\ \A k \in Keys : StoreKeeps(k) /\ inFlight'[k] = inFlight[k]
                /\ recs' = recs
                /\ calls' = calls]_vars
    /\ [](\A c \in CallIds :
            /\ (Done(c) /\ calls[c].ret \in {"fresh", "renew", "swr"})
               => calls[c].outcome = "record" /\ calls[c].result # None
            /\ (Done(c) /\ calls[c].outcome = "error") => calls[c].ret \in {"force", "block"})
    /\ [](\A b \in BuildIds :
            (builds[b].kind = "swr" /\ builds[b].stage = "rejected")
            => PromiseOutcome(b) # "error")

\* a background refresh has just failed: the store holds the stale record it
\* was to replace, built from content the page no longer has
C34_Witness ==
    \E b \in BuildIds :
        /\ builds[b].kind = "swr" /\ builds[b].stage = "rejected"
        /\ deckCache[builds[b].key] # None
        /\ now >= recs[deckCache[builds[b].key]].freshUntil
        /\ recs[deckCache[builds[b].key]].payload.content # upstream[builds[b].key]

\* C38: the Cache-Control of a 200 or 304 answer advertises a max-age of at
\* most the time left until the served record's freshUntil, and max-age plus
\* stale-while-revalidate of at most the time left until its swrUntil.
C38_MaxAgeWithinFreshness ==
    \A c \in CallIds :
        (Done(c) /\ calls[c].outcome = "record") =>
            \A clientETag \in ClientETags :
                LET resp == RouteResponse(c, clientETag)
                    rec == recs[calls[c].result]
                IN /\ resp.cacheControl.maxAge * 1000 <= rec.freshUntil - now
                   /\ (resp.cacheControl.maxAge + resp.cacheControl.staleWhileRevalidate) * 1000
                         <= rec.swrUntil - now

\* ================================================================
\* The Archidekt-API server (src/unnamed/part_007): parseArchidektRows and
\* choosePrimaryCategory.  Under CategorySpec upstream is the deck JSON of
\* /api/decks/<id>/ (the names of its categories in their declared order and,
\* per card, the card's own categories), calls what parseArchidektRows
\* returned and builds whether it has run.
deckJson == upstream

CategoryNames == Categories \cup {"Ramp"}

\* the categories array of one card, as Archidekt lists them
CardCats == UNION {[1..n -> CategoryNames] : n \in 0..MaxCardCats}

DeckJsons ==
    [categories : UNION {[1..n -> CategoryNames] : n \in 0..MaxDeckCats},
     cards : UNION {[1..n -> CardCats] : n \in 1..MaxDeckCards}]

\* Array.prototype.includes
Includes(list, x) == \E i \in 1..Len(list) : list[i] = x

\* lines 147-149: the first element of the deck order the card has, NullSig
\* when the loop ends without returning
RECURSIVE FirstIncluded(_, _)
FirstIncluded(deckCategoryOrder, cardCats) ==
    IF deckCategoryOrder = <<>> THEN NullSig
    ELSE IF Includes(cardCats, Head(deckCategoryOrder)) THEN <<Head(deckCategoryOrder)>>
    ELSE FirstIncluded(Tail(deckCategoryOrder), cardCats)

\* a choosePrimaryCategory that never looks at the deck order
choosePrimaryCategoryCardFirst(cardCats, deckCategoryOrder) ==
    IF Len(cardCats) = 0 THEN "Uncategorized" ELSE cardCats[1]

choosePrimaryCategory(cardCats, deckCategoryOrder) ==
    IF Len(cardCats) = 0 THEN "Uncategorized"
    ELSE IF Len(deckCategoryOrder) # 0 /\ FirstIncluded(deckCategoryOrder, cardCats) # NullSig
      THEN FirstIncluded(deckCategoryOrder, cardCats)[1]
    ELSE cardCats[1]

\* parseArchidektRows(deckJson): of a row, its categories and its category
parseArchidektRows(json) ==
    [rows |-> [i \in 1..Len(json.cards) |->
                 [categories |-> json.cards[i],
                  category |-> choosePrimaryCategory(json.cards[i], json.categories)]],
     deckCategoryOrder |-> json.categories]

NotParsed == [rows |-> <<>>, deckCategoryOrder |-> <<>>]

CategoryInit ==
    /\ now = 0
    /\ ticks = 0
    /\ deckJson \in DeckJsons
    /\ recs = <<>>
    /\ deckCache = <<>>
    /\ inFlight = <<>>
    /\ builds = "fetched"
    /\ calls = NotParsed

\* line 276: const { rows, deckCategoryOrder } = parseArchidektRows(deckJson)
ParseRows ==
    /\ builds = "fetched"
    /\ builds' = "parsed"
    /\ calls' = parseArchidektRows(deckJson)
    /\ UNCHANGED <<now, ticks, upstream, recs, deckCache, inFlight>>

CategoryNext == ParseRows

CategorySpec == CategoryInit /\ [][CategoryNext]_vars

\* C36: the category of a parsed row is 'Uncategorized' when the card has no
\* categories; otherwise it is one of the card's categories: the one that comes
\* first in the deck's declared order when any of them is declared, and the
\* first the card lists when none of them is (an empty order included).
C36_PrimaryCategory ==
    builds = "parsed" =>
        /\ Len(calls.rows) = Len(deckJson.cards)
        /\ \A i \in 1..Len(calls.rows) :
              LET cats == deckJson.cards[i]
                  order == deckJson.categories
                  primary == calls.rows[i].category
                  declared == {j \in 1..Len(order) : \E h \in 1..Len(cats) : cats[h] = order[j]}
              IN /\ cats = <<>> => primary = "Uncategorized"
                 /\ (cats # <<>> /\ declared # {}) =>
                       \E j \in declared : /\ primary = order[j]
                                           /\ \A h \in declared : j <= h
                 /\ (cats # <<>> /\ declared = {}) => primary = cats[1]

\* a card listing Ramp then Lands in a deck that declares Lands before Ramp
C36_Witness ==
    /\ builds = "parsed"
    /\ deckJson.categories = <<"Artifacts", "Lands", "Ramp">>
    /\ \E i \in 1..Len(calls.rows) :
          /\ calls.rows[i].categories = <<"Ramp", "Lands">>
          /\ calls.rows[i].category = "Lands"
    /\ \E i \in 1..Len(calls.rows) :
          /\ calls.rows[i].categories = <<>>
          /\ calls.rows[i].category = "Uncategorized"

\* ================================================================
\* The Archidekt-API server (src/unnamed/part_007): hydrateRowsToPayload
\* through fetchScryfallCardBySetNum and fetchScryfallByNameExact.  Under
\* ApiHydrateSpec upstream is the rows parseArchidektRows returned, inFlight
\* the deck's category order handed in as meta.categoryOrder, recs the images
\* array, deckCache the Scryfall item cache with its setnum: and name: keys,
\* calls[1] the lookup the loop awaits, builds the position of the loop, the
\* lookups of the row at hand, those of the rows behind and, at the end, the
\* payload returned.
metaCategoryOrder == inFlight

\* setCode and collectorNumber of a row: both null, both given, or given but
\* blank once trimmed (line 65-67)
Printings == {"none", "set", "blank"}

\* a row of a card that has no categories of its own; card stands for name,
\* quantity, foil and, with printing, for setCode and collectorNumber
ApiRows == [card : CardIds, printing : Printings, categories : {<<>>}, category : {"Uncategorized"}]

ApiRowLists == UNION {[1..n -> ApiRows] : n \in 1..MaxApiRows}

\* `setnum:${set}/${cn}` and `name:${name.toLowerCase()}`
ScryKeys == {"setnum", "name"} \X CardIds

\* what the fetch of line 76 or 97 settles to; the JSON of a card comes with
\* the etag the host chose to send
ApiScryAnswers(card) ==
    [status : {"throw", "304", "notok", "garbled"}, data : {NoData},
     etag : {NullSig}, lastModified : {NullSig}]
    \cup UNION {[status : {"ok"}, data : {[card |-> card, kind |-> kd]},
                 etag : {NullSig, <<"E", card, kd>>},
                 lastModified : {<<"L", card, kd>>}] : kd \in Kinds}

\* lines 72-74 and 94-95: If-None-Match in both, If-Modified-Since by setnum
ApiScryHeaders(by, cached) ==
    [ifNoneMatch |-> cached.etag,
     ifModifiedSince |-> IF by = "setnum" THEN cached.lastModified ELSE NullSig]

\* lines 76-83 and 97-104: the lookup throws on a network error, on a non-OK
\* status that is no 304 with cached data, on a body that is no JSON
ApiScryReturn(cached, answer) ==
    IF answer.status = "304" /\ cached.data # NoData
      THEN [raised |-> FALSE, data |-> cached.data]
    ELSE IF answer.status = "ok" THEN [raised |-> FALSE, data |-> answer.data]
    ELSE [raised |-> TRUE, data |-> NoData]

\* lines 86 and 107: scryCache.set(key, { data, etag, lastModified })
ApiScryStore(cache, key, answer) ==
    IF answer.status = "ok"
      THEN [cache EXCEPT ![key] = [data |-> answer.data, etag |-> answer.etag,
                                   lastModified |-> answer.lastModified]]
      ELSE cache

\* lines 217-226
ApiImgFront(data) == IF data.kind \in {"plain", "twofaced"} THEN <<"front", data.card>> ELSE NullSig

ApiImgBack(data) == IF data.kind = "twofaced" THEN <<"back", data.card>> ELSE NullSig

\* lines 229-239
ApiImageOf(row, data) ==
    [card |-> row.card, printing |-> row.printing, categories |-> row.categories,
     category |-> row.category, img |-> ApiImgFront(data), backImg |-> ApiImgBack(data)]

\* lines 246-248: the deck's order when it has one, else the categories of
\* the images (of an image without categories, its category)
ApiCategoryOrder(order, imgs) ==
    IF Len(order) # 0 THEN order
    ELSE ArrayFromSet([i \in 1..Len(imgs) |-> imgs[i].category])

\* lines 250-255
ApiPayload(order, imgs) == [images |-> imgs, categoryOrder |-> ApiCategoryOrder(order, imgs)]

ApiNoCall ==
    [pc |-> "none", by |-> "none", card |-> None, cached |-> NoEntry,
     headers |-> ApiScryHeaders("none", NoEntry),
     answer |-> [status |-> "none", data |-> NoData, etag |-> NullSig,
                 lastModified |-> NullSig],
     ret |-> [raised |-> FALSE, data |-> NoData]]

\* fetchScryfallByNameExact(name) up to its await
ApiNameCall(cache, cd) ==
    [ApiNoCall EXCEPT !.pc = "fetch", !.by = "name", !.card = cd,
                      !.cached = cache[<<"name", cd>>],
                      !.headers = ApiScryHeaders("name", cache[<<"name", cd>>])]

\* fetchScryfallCardBySetNum(setCode, collectorNumber) up to its await
ApiSetNumCall(cache, cd) ==
    [ApiNoCall EXCEPT !.pc = "fetch", !.by = "setnum", !.card = cd,
                      !.cached = cache[<<"setnum", cd>>],
                      !.headers = ApiScryHeaders("setnum", cache[<<"setnum", cd>>])]

\* a lookup that was made and how it ended
Tried(by, ret) == [by |-> by, raised |-> ret.raised, data |-> ret.data]

ApiHydrateInit ==
    /\ now = 0
    /\ ticks = 0
    /\ metaCategoryOrder \in {<<>>, <<"Lands">>}
    /\ rows \in ApiRowLists
    /\ images = <<>>
    /\ scryCache = [key \in ScryKeys |-> NoEntry]
    /\ builds = [stage |-> "loop", pos |-> 0, tried |-> <<>>, outcomes |-> <<>>,
                 payload |-> ApiPayload(<<>>, <<>>)]
    /\ calls = [c \in {1} |-> ApiNoCall]

\* an entry of scryCache reaches its ttl
ApiScryExpire(key) ==
    /\ scryCache[key] # NoEntry
    /\ scryCache' = [scryCache EXCEPT ![key] = NoEntry]
    /\ UNCHANGED <<now, ticks, rows, images, inFlight, builds, calls>>

\* lines 203-215, the loop takes its next row: by set and number when the row
\* has both (a blank one throws at line 67 and the catch of line 209 goes on
\* by name), by name otherwise
ApiLookupStart ==
    /\ builds.stage = "loop"
    /\ calls[1].pc # "fetch"
    /\ builds.pos < Len(rows)
    /\ LET row == rows[builds.pos + 1]
       IN /\ calls' = [calls EXCEPT ![1] =
                 IF row.printing = "set" THEN ApiSetNumCall(scryCache, row.card)
                 ELSE ApiNameCall(scryCache, row.card)]
          /\ builds' = [builds EXCEPT !.tried =
                 IF row.printing = "blank"
                   THEN <<Tried("setnum", [raised |-> TRUE, data |-> NoData])>>
                   ELSE <<>>]
    /\ UNCHANGED <<now, ticks, rows, images, scryCache, inFlight>>

\* the rest of the loop body without the catch of line 209: a failed lookup
\* by set and number is the end of the row
ApiLookupAnswerNoFallback(answer) ==
    /\ calls[1].pc = "fetch"
    /\ answer \in ApiScryAnswers(calls[1].card)
    /\ LET by == calls[1].by
           cd == calls[1].card
           ret == ApiScryReturn(calls[1].cached, answer)
           row == rows[builds.pos + 1]
           pushed == ~ret.raised /\ ApiImgFront(ret.data) # NullSig
       IN /\ scryCache' = ApiScryStore(scryCache, <<by, cd>>, answer)
          /\ calls' = [calls EXCEPT ![1] =
                [@ EXCEPT !.pc = "settled", !.answer = answer, !.ret = ret]]
          /\ images' = IF pushed THEN Append(images, ApiImageOf(row, ret.data)) ELSE images
          /\ builds' = [builds EXCEPT
                !.pos = @ + 1,
                !.tried = <<>>,
                !.outcomes = Append(@, [tried |-> Append(builds.tried, Tried(by, ret)),
                                        pushed |-> pushed])]
    /\ UNCHANGED <<now, ticks, rows, inFlight>>

\* the fetch settles: the rest of the lookup (lines 77-87, 98-108) and of the
\* loop body (lines 209-243)
ApiLookupAnswer(answer) ==
    /\ calls[1].pc = "fetch"
    /\ answer \in ApiScryAnswers(calls[1].card)
    /\ LET by == calls[1].by
           cd == calls[1].card
           ret == ApiScryReturn(calls[1].cached, answer)
           row == rows[builds.pos + 1]
           pushed == ~ret.raised /\ ApiImgFront(ret.data) # NullSig
       IN /\ scryCache' = ApiScryStore(scryCache, <<by, cd>>, answer)
          /\ IF by = "setnum" /\ ret.raised
               THEN /\ calls' = [calls EXCEPT ![1] = ApiNameCall(scryCache', row.card)]
                    /\ builds' = [builds EXCEPT !.tried = Append(@, Tried(by, ret))]
                    /\ UNCHANGED images
               ELSE /\ calls' = [calls EXCEPT ![1] =
                          [@ EXCEPT !.pc = "settled", !.answer = answer, !.ret = ret]]
                    /\ images' = IF pushed THEN Append(images, ApiImageOf(row, ret.data))
                                           ELSE images
                    /\ builds' = [builds EXCEPT
                          !.pos = @ + 1,
                          !.tried = <<>>,
                          !.outcomes = Append(@, [tried |-> Append(builds.tried, Tried(by, ret)),
                                                  pushed |-> pushed])]
    /\ UNCHANGED <<now, ticks, rows, inFlight>>

\* lines 246-255: the loop is over, the payload is returned
ApiHydrateReturn ==
    /\ builds.stage = "loop"
    /\ calls[1].pc # "fetch"
    /\ builds.pos = Len(rows)
    /\ builds' = [builds EXCEPT !.stage = "returned",
                                 !.payload = ApiPayload(metaCategoryOrder, images)]
    /\ UNCHANGED <<now, ticks, rows, images, scryCache, inFlight, calls>>

ApiHydrateNext ==
    \/ \E key \in ScryKeys : ApiScryExpire(key)
    \/ ApiLookupStart
    \/ \E cd \in CardIds : \E answer \in ApiScryAnswers(cd) : ApiLookupAnswer(answer)
    \/ ApiHydrateReturn

ApiHydrateSpec == ApiHydrateInit /\ [][ApiHydrateNext]_vars

\* the rows that were pushed, in the order of the rows
RECURSIVE ApiHydrated(_, _)
ApiHydrated(rws, outcomes) ==
    IF rws = <<>> THEN <<>>
    ELSE LET n == Len(rws)
             front == ApiHydrated(SubSeq(rws, 1, n - 1), SubSeq(outcomes, 1, n - 1))
         IN IF outcomes[n].pushed THEN Append(front, rws[n]) ELSE front

\* C37: a row with set code and collector number is looked up by them first
\* and, when that lookup fails, once more by name; a row without them is
\* looked up by name only; the row is in the images exactly when the last of
\* its lookups returned a card with a front image; the loop never ends in an
\* error, and the payload holds the rows that were pushed, in their order.
C37_NameFallback ==
    /\ builds.stage \in {"loop", "returned"}
    /\ Len(builds.outcomes) = builds.pos
    /\ \A i \in 1..Len(builds.outcomes) :
          LET tried == builds.outcomes[i].tried
              last == tried[Len(tried)]
          IN /\ IF rows[i].printing = "none"
                  THEN Len(tried) = 1 /\ tried[1].by = "name"
                  ELSE /\ tried[1].by = "setnum"
                       /\ IF tried[1].raised
                            THEN Len(tried) = 2 /\ tried[2].by = "name"
                            ELSE Len(tried) = 1
             /\ builds.outcomes[i].pushed
                   <=> (~last.raised /\ last.data.kind \in {"plain", "twofaced"})
    /\ LET kept == ApiHydrated(SubSeq(rows, 1, builds.pos), builds.outcomes)
       IN /\ Len(images) = Len(kept)
          /\ \A i \in 1..Len(kept) :
                /\ images[i].card = kept[i].card
                /\ images[i].img = <<"front", kept[i].card>>
    /\ builds.stage = "returned" => builds.payload.images = images

\* of two rows the first, whose printing Scryfall does not know, was found by
\* name and is in the payload; the second, without a printing, failed by name
\* and is not
C37_Witness ==
    /\ builds.stage = "returned"
    /\ Len(rows) = 2
    /\ rows[1].printing = "set" /\ rows[2].printing = "none"
    /\ Len(builds.outcomes[1].tried) = 2
    /\ builds.outcomes[1].tried[1].raised
    /\ builds.outcomes[1].pushed
    /\ builds.outcomes[2].tried[1].raised
    /\ ~builds.outcomes[2].pushed
    /\ Len(builds.payload.images) = 1

\* ================================================================
\* The Archidekt-API server (src/unnamed/part_007): resolveArchidekt.  Under
\* ApiResolveSpec upstream[k] is the version of deck k at Archidekt,
\* deckCache[k] the record stored under the key, inFlight[k] the promise
\* registered under it, builds[t] a task (the async function of lines 262-296
\* with its .catch and .finally), calls[c] a caller of resolveArchidekt.

\* no record (undefined) in this server's store
ApiNoRec ==
    [payload |-> [key |-> None, content |-> None], etag |-> NullSig,
     archidektUpdatedAt |-> NullSig, lastScrapedAt |-> None]

\* how /api/decks/<id>/small/ and /api/decks/<id>/ answer: a JSON with
\* updatedAt, a JSON without it, a non-OK status
ApiAnswers == {"ok", "bare", "notok"}

ApiIdleTask ==
    [stage |-> "idle", key |-> None, remote |-> NullSig, content |-> None,
     updatedAt |-> NullSig, via |-> "none", rec |-> ApiNoRec]

ApiIdleCall ==
    [pc |-> "idle", key |-> None, awaits |-> None, starter |-> FALSE,
     via |-> "none", rec |-> ApiNoRec]

\* lines 287-292: the record of a hydrated deck
ApiRecord(k, content, deckUpdatedAt, remoteUpdatedAt) ==
    [payload |-> [key |-> k, content |-> content],
     etag |-> weakEtagForPayload([key |-> k, content |-> content]),
     archidektUpdatedAt |-> IF deckUpdatedAt # NullSig THEN deckUpdatedAt ELSE remoteUpdatedAt,
     lastScrapedAt |-> now]

\* lines 297-302: the .catch of the task
ApiCatch(task) ==
    IF deckCache[task.key] # ApiNoRec
      THEN [task EXCEPT !.stage = "settled", !.via = "fallback", !.rec = deckCache[task.key]]
      ELSE [task EXCEPT !.stage = "settled", !.via = "error", !.rec = ApiNoRec]

\* the reactions of a settled task are running: its .finally, its callers
ApiDraining ==
    \/ \E t \in BuildIds : builds[t].stage = "settled"
    \/ \E c \in CallIds : calls[c].pc = "await" /\ builds[calls[c].awaits].stage = "final"
    \/ \E c \in CallIds : calls[c].pc = "done"

\* a task all of whose callers have resumed is gone
ApiReap(ntasks, ncalls) ==
    [t \in BuildIds |->
        IF ntasks[t].stage = "final" /\ \A c \in CallIds : ~(ncalls[c].pc = "await" /\ ncalls[c].awaits = t)
          THEN ApiIdleTask ELSE ntasks[t]]

\* the task the next async function of lines 262-296 is
ApiFreeTask == CHOOSE t \in BuildIds : builds[t].stage = "idle" /\ \A u \in BuildIds : builds[u].stage = "idle" => t <= u

ApiResolveInit ==
    /\ now = 0
    /\ ticks = 0
    /\ upstream = [k \in Keys |-> 1]
    /\ recs = <<>>
    /\ deckCache = [k \in Keys |-> ApiNoRec]
    /\ inFlight = [k \in Keys |-> None]
    /\ builds = [t \in BuildIds |-> ApiIdleTask]
    /\ calls = [c \in CallIds |-> ApiIdleCall]

\* the deck's owner edits the deck
ApiUpstreamChange(k) ==
    /\ ~ApiDraining
    /\ upstream[k] < MaxVersion
    /\ upstream' = [upstream EXCEPT ![k] = @ + 1]
    /\ UNCHANGED <<now, ticks, recs, deckCache, inFlight, builds, calls>>

\* a resolveArchidekt without line 260: every caller starts a task of its own
ApiCallStartNoJoin(c, k) ==
    /\ ~ApiDraining
    /\ calls[c].pc = "idle"
    /\ \A d \in CallIds : d < c => calls[d].pc # "idle"
    /\ \E t \in BuildIds : builds[t].stage = "idle"
    /\ calls' = [calls EXCEPT ![c] =
          [ApiIdleCall EXCEPT !.pc = "await", !.key = k, !.awaits = ApiFreeTask,
                              !.starter = TRUE]]
    /\ inFlight' = [inFlight EXCEPT ![k] = ApiFreeTask]
    /\ builds' = [builds EXCEPT ![ApiFreeTask] =
          [ApiIdleTask EXCEPT !.stage = "small", !.key = k]]
    /\ UNCHANGED <<now, ticks, upstream, recs, deckCache>>

\* resolveArchidekt(deckId) up to its return: the promise in flight (line
\* 260), or a new task, run up to its await of fetchArchidektSmall and
\* registered (lines 262-265, 305-306)
ApiCallStart(c, k) ==
    /\ ~ApiDraining
    /\ calls[c].pc = "idle"
    /\ \A d \in CallIds : d < c => calls[d].pc # "idle"
    /\ IF inFlight[k] # None
         THEN /\ calls' = [calls EXCEPT ![c] =
                    [ApiIdleCall EXCEPT !.pc = "await", !.key = k, !.awaits = inFlight[k]]]
              /\ UNCHANGED <<inFlight, builds>>
         ELSE /\ \E t \in BuildIds : builds[t].stage = "idle"
              /\ calls' = [calls EXCEPT ![c] =
                    [ApiIdleCall EXCEPT !.pc = "await", !.key = k, !.awaits = ApiFreeTask,
                                        !.starter = TRUE]]
              /\ inFlight' = [inFlight EXCEPT ![k] = ApiFreeTask]
              /\ builds' = [builds EXCEPT ![ApiFreeTask] =
                    [ApiIdleTask EXCEPT !.stage = "small", !.key = k]]
    /\ UNCHANGED <<now, ticks, upstream, recs, deckCache>>

\* lines 264-277: fetchArchidektSmall settled (a throw is logged and leaves
\* remoteUpdatedAt null); the task returns the cached record as current, or
\* goes on to fetchArchidektDeck
ApiSmallDone(t, answer) ==
    /\ ~ApiDraining
    /\ builds[t].stage = "small"
    /\ LET k == builds[t].key
           remoteUpdatedAt == IF answer = "ok" THEN UpdatedAt(upstream[k]) ELSE NullSig
           cached == deckCache[k]
       IN builds' = [builds EXCEPT ![t] =
             IF cached # ApiNoRec /\ remoteUpdatedAt # NullSig
                /\ cached.archidektUpdatedAt = remoteUpdatedAt
               THEN [@ EXCEPT !.stage = "settled", !.remote = remoteUpdatedAt,
                              !.via = "current", !.rec = cached]
               ELSE [@ EXCEPT !.stage = "deck", !.remote = remoteUpdatedAt]]
    /\ UNCHANGED <<now, ticks, upstream, recs, deckCache, inFlight, calls>>

\* lines 275-277: fetchArchidektDeck settled; the rows are parsed and the
\* task awaits hydrateRowsToPayload; a throw goes to .catch
ApiDeckDone(t, answer) ==
    /\ ~ApiDraining
    /\ builds[t].stage = "deck"
    /\ LET k == builds[t].key
       IN builds' = [builds EXCEPT ![t] =
             IF answer = "notok" THEN ApiCatch(@)
             ELSE [@ EXCEPT !.stage = "hydrate", !.content = upstream[k],
                            !.updatedAt = IF answer = "ok" THEN UpdatedAt(upstream[k])
                                                          ELSE NullSig]]
    /\ UNCHANGED <<now, ticks, upstream, recs, deckCache, inFlight, calls>>

\* lines 283-295: hydrateRowsToPayload settled; the record is made, stored
\* and returned
ApiHydrateDone(t) ==
    /\ ~ApiDraining
    /\ builds[t].stage = "hydrate"
    /\ LET k == builds[t].key
           rec == ApiRecord(k, builds[t].content, builds[t].updatedAt, builds[t].remote)
       IN /\ deckCache' = [deckCache EXCEPT ![k] = rec]
          /\ builds' = [builds EXCEPT ![t] = [@ EXCEPT !.stage = "settled", !.via = "built",
                                                      !.rec = rec]]
    /\ UNCHANGED <<now, ticks, upstream, recs, inFlight, calls>>

\* line 303: .finally(() => inFlight.delete(key))
ApiFinallyRun(t) ==
    /\ builds[t].stage = "settled"
    /\ inFlight' = [inFlight EXCEPT ![builds[t].key] = None]
    /\ builds' = ApiReap([builds EXCEPT ![t].stage = "final"], calls)
    /\ UNCHANGED <<now, ticks, upstream, recs, deckCache, calls>>

\* line 431: a caller resumes with what the promise it got settled to
ApiAwaitDone(c) ==
    /\ calls[c].pc = "await"
    /\ builds[calls[c].awaits].stage = "final"
    /\ calls' = [calls EXCEPT ![c] = [@ EXCEPT !.pc = "done",
                                                !.via = builds[calls[c].awaits].via,
                                                !.rec = builds[calls[c].awaits].rec]]
    /\ builds' = ApiReap(builds, calls')
    /\ UNCHANGED <<now, ticks, upstream, recs, deckCache, inFlight>>

\* lines 434-445: the route has answered; the requests behind move up
ApiRespond(c) ==
    /\ calls[c].pc = "done"
    /\ calls' = [d \in CallIds |->
                   IF d < c THEN calls[d]
                   ELSE IF d < MaxCalls THEN calls[d + 1]
                   ELSE ApiIdleCall]
    /\ UNCHANGED <<now, ticks, upstream, recs, deckCache, inFlight, builds>>

ApiResolveNext ==
    \/ \E k \in Keys : ApiUpstreamChange(k)
    \/ \E c \in CallIds, k \in Keys : ApiCallStart(c, k)
    \/ \E t \in BuildIds, answer \in ApiAnswers : ApiSmallDone(t, answer)
    \/ \E t \in BuildIds, answer \in ApiAnswers : ApiDeckDone(t, answer)
    \/ \E t \in BuildIds : ApiHydrateDone(t)
    \/ \E t \in BuildIds : ApiFinallyRun(t)
    \/ \E c \in CallIds : ApiAwaitDone(c)
    \/ \E c \in CallIds : ApiRespond(c)

ApiResolveSpec == ApiResolveInit /\ [][ApiResolveNext]_vars

\* the tasks of key k that have not settled
ApiRunning(k) == {t \in BuildIds : builds[t].key = k /\ builds[t].stage \in {"small", "deck", "hydrate"}}

\* C35: a caller that finds a resolution of its key in flight starts nothing
\* and waits for that resolution; every caller of a resolution resumes with
\* the outcome the resolution settled to, so that the callers of one
\* resolution get the same record or the same error; a key has at most one
\* resolution that has not settled, hence at most one probe and one deck fetch
\* at a time; a resolution whose deck fetch fails settles to the record the
\* store holds for the key when there is one and to the error when there is
\* none, and leaves the store as it is.
C35_JoinersShareOutcome ==
    /\ [](\A k \in Keys : Cardinality(ApiRunning(k)) <= 1)
    /\ [](\A c \in CallIds, d \in CallIds :
            (calls[c].pc = "done" /\ calls[d].pc = "done" /\ calls[c].awaits = calls[d].awaits)
            => calls[c].via = calls[d].via /\ calls[c].rec = calls[d].rec)
    /\ [](\A c \in CallIds :
            calls[c].pc = "done"
            => /\ calls[c].via \in {"current", "built", "fallback", "error"}
               /\ calls[c].via = "error" <=> calls[c].rec = ApiNoRec)
    /\ [][/\ \A c \in CallIds, k \in Keys :
               (calls[c].pc = "idle" /\ calls'[c].pc = "await" /\ calls'[c].key = k
                /\ (\A d \in CallIds \ {c} : calls'[d] = calls[d])
                /\ inFlight[k] # None)
               => /\ calls'[c].awaits = inFlight[k]
                  /\ builds[inFlight[k]].key = k
                  /\ builds' = builds /\ inFlight' = inFlight
          /\ \A c \in CallIds :
               (calls[c].pc = "await" /\ calls'[c].pc = "done"
                /\ \A d \in CallIds \ {c} : calls'[d] = calls[d])
               => /\ calls'[c].via = builds[calls[c].awaits].via
                  /\ calls'[c].rec = builds[calls[c].awaits].rec
                  /\ builds[calls[c].awaits].key = calls[c].key
          /\ \A t \in BuildIds :
               (builds[t].stage = "deck" /\ builds'[t].stage = "settled")
               => /\ deckCache' = deckCache
                  /\ IF deckCache[builds[t].key] # ApiNoRec
                       THEN /\ builds'[t].via = "fallback"
                            /\ builds'[t].rec = deckCache[builds[t].key]
                       ELSE builds'[t].via = "error"]_vars

\* two callers of one resolution, the second having joined it, have both
\* resumed with the stored record of the older version, the deck fetch having
\* failed
C35_Witness ==
    /\ calls[1].pc = "done" /\ calls[2].pc = "done"
    /\ calls[1].awaits = calls[2].awaits
    /\ calls[1].starter /\ ~calls[2].starter
    /\ calls[1].via = "fallback"
    /\ calls[2].rec = deckCache[calls[2].key]
    /\ calls[2].rec.payload.content # upstream[calls[2].key]

====
